---- MODULE Spec2Model ----
(***************************************************************************)
(* A model of the participant-facing session object of the coupling        *)
(* library (SolverInterfaceImpl): its lifecycle (configure, initialize,    *)
(* advance, finalize), the per-mesh lock, the timestep synchronisation     *)
(* between the ranks of one participant and the ping/pong drain of the     *)
(* inter-participant channels in finalize.                                 *)
(*                                                                         *)
(* The specifications of the module:                                       *)
(*   Spec          one rank's session, one action per API call;            *)
(*   SpecSync      the ranks of one participant inside advance();          *)
(*   SpecFinalize  the participants' masters and slaves inside finalize(); *)
(*   SpecPartition two participants inside computePartitions();            *)
(*   SpecMapping   the mapping dispatch and the data actions of a session; *)
(*   SpecScheme    the two participants of a serial coupling scheme;       *)
(*   SpecImplicit  one participant of an implicit coupling scheme;         *)
(*   SpecConfigure the session inside configure();                         *)
(*   SpecData      the data values of one mesh;                            *)
(*   SpecMesh      the vertices of one mesh;                               *)
(*   SpecEdges     the edges, triangles and quads of one mesh;             *)
(*   SpecReset     one rank's session with the meshes its partitions had.  *)
(***************************************************************************)
EXTENDS Integers, Sequences, FiniteSets, TLC

VARIABLES
  cfg,     \* the configuration and the build: fixed once chosen
  sess,    \* the session object of one rank (SolverInterfaceImpl's fields)
  ranks,   \* SpecSync: each rank's position inside advance()
  syncCh,  \* SpecSync: the master-slave channel, one FIFO per slave
  hist,    \* history of the session: what the lock claims speak about
  fin,     \* SpecFinalize: each process's position inside finalize()
  m2nCh,   \* SpecFinalize: the master channels of the M2Ns, one FIFO per direction
  part,    \* SpecPartition: the participants inside computePartitions()
  disp,    \* SpecMapping: the mappings and data contexts of one session
  cpl,     \* SpecScheme: the two participants of a serial coupling scheme
  iter,    \* SpecImplicit: one participant of an implicit coupling scheme
  conf,    \* SpecConfigure: the session inside configure()
  data,    \* SpecData: the data values of one mesh
  geo      \* SpecMesh: the vertices of one mesh; SpecEdges: its edges and faces

vars == <<cfg, sess, hist, ranks, syncCh, fin, m2nCh, part, disp, cpl, iter, conf, data, geo>>

----------------------------------------------------------------------------
(* Bounds of the model. *)

\* Largest number of vertices a mesh is given.
MaxVertices == 2
\* The coupling scheme's limit of time windows (maxTimeWindows).
MaxTimeWindows == 2
\* The fixed time window size, in units of the numerical tolerance.
WindowSize == 2
\* Largest number of advance() calls that pass their preconditions.
MaxAdvanceCalls == 3

\* SpecSync: largest number of advance() calls of one rank.
MaxSyncCalls == 2

\* SpecMapping: largest number of time windows, and the value at which the
\* counters of calls on a mapping stop counting.
MaxMappingWindows == 2
MaxCount == 2

\* SpecImplicit: the largest limit of iterations per time window (maxIterations)
\* a scheme is configured with.
MaxIterations == 3

\* The tolerance of math::equals, the unit in which timestep lengths are counted.
NUMERICAL_ZERO_DIFFERENCE == 1

MeshIDs == {0, 1}

Abs(x) == IF x < 0 THEN -x ELSE x

\* math::equals(a, b): equality up to the numerical tolerance.
equals(a, b) == Abs(a - b) <= NUMERICAL_ZERO_DIFFERENCE

----------------------------------------------------------------------------
(* Configuration: what configure() reads, and the build. *)

INITIAL == "INITIAL"
ON_ADVANCE == "ON_ADVANCE"

\* impl::MappingContext: whether a mapping is set, and its timing.
MappingContext(mapping, timing) == [mapping |-> mapping, timing |-> timing]

\* impl::MeshContext, as far as resetMesh() reads it.
MeshContextChoices ==
  { [fromMappingContext |-> MappingContext(TRUE, ON_ADVANCE),
     toMappingContext   |-> MappingContext(FALSE, INITIAL)],
    [fromMappingContext |-> MappingContext(TRUE, INITIAL),
     toMappingContext   |-> MappingContext(TRUE, INITIAL)],
    [fromMappingContext |-> MappingContext(FALSE, INITIAL),
     toMappingContext   |-> MappingContext(FALSE, INITIAL)],
    [fromMappingContext |-> MappingContext(FALSE, ON_ADVANCE),
     toMappingContext   |-> MappingContext(FALSE, INITIAL)] }

\* m2n::BoundM2N entries of _m2ns, a map ordered by the remote participant's name.
BoundM2N(remoteName, isRequesting) ==
  [remoteName |-> remoteName, isRequesting |-> isRequesting]

\* _m2ns of the session: it accepts the connection of B and requests that of C.
SessionM2Ns == <<BoundM2N("B", FALSE), BoundM2N("C", TRUE)>>

\* A mesh that resetMesh() accepts: it has an ON_ADVANCE mapping.
MovingMesh ==
  [fromMappingContext |-> MappingContext(TRUE, ON_ADVANCE),
   toMappingContext   |-> MappingContext(FALSE, INITIAL)]

\* The configurations and builds of the accessing process; the constructor
\* rejects a rank that is not below the communicator size.
Configurations ==
  { c \in [ debug       : BOOLEAN,        \* NDEBUG is not defined
            size        : {1, 2},         \* _accessorCommunicatorSize
            rank        : {0, 1},         \* _accessorProcessRank
            meshContext : [MeshIDs -> MeshContextChoices],
            m2ns        : {SessionM2Ns},
            plotExport  : BOOLEAN ] :     \* an export context triggers a solver plot
      c.rank < c.size /\ c.meshContext[1] = MovingMesh }

\* utils::MasterSlave::isMaster() and isSlave().
isMaster == cfg.size > 1 /\ cfg.rank = 0
isSlave  == cfg.size > 1 /\ cfg.rank > 0

----------------------------------------------------------------------------
(* The mesh lock (utils::MeshLock behind _meshLock): mesh ID -> locked. *)

MeshLock_add(lock, id, locked) ==
  [m \in DOMAIN lock \cup {id} |-> IF m = id THEN locked ELSE lock[m]]

MeshLock_lockAll(lock) == [m \in DOMAIN lock |-> TRUE]

MeshLock_unlock(lock, id) == [lock EXCEPT ![id] = FALSE]

MeshLock_check(lock, id) == lock[id]

----------------------------------------------------------------------------
(* The coupling scheme behind _couplingScheme, as the session uses it:     *)
(* an explicit scheme with a fixed time window size.                       *)

NoScheme ==
  [ alive |-> FALSE, initialized |-> FALSE, time |-> 0, timeWindow |-> 0,
    computedPart |-> 0, complete |-> FALSE, exchanged |-> FALSE ]

scheme_construct == [NoScheme EXCEPT !.alive = TRUE]

scheme_initialize(cs, startTime, startTimeWindow, exch) ==
  [cs EXCEPT !.initialized = TRUE, !.time = startTime,
             !.timeWindow = startTimeWindow, !.computedPart = 0,
             !.complete = FALSE, !.exchanged = exch]

getThisTimestepRemainder(cs) == WindowSize - cs.computedPart

getNextTimestepMaxLength(cs) == getThisTimestepRemainder(cs)

isCouplingOngoing(cs) == cs.timeWindow <= MaxTimeWindows

willDataBeExchanged(cs, lastSolverTimestepLength) ==
  getThisTimestepRemainder(cs) - lastSolverTimestepLength <= 0

scheme_addComputedTime(cs, dt) ==
  [cs EXCEPT !.computedPart = @ + dt, !.time = @ + dt]

scheme_advance(cs) ==
  IF getThisTimestepRemainder(cs) <= 0
  THEN [cs EXCEPT !.timeWindow = @ + 1, !.computedPart = 0,
                  !.complete = TRUE, !.exchanged = TRUE]
  ELSE [cs EXCEPT !.complete = FALSE, !.exchanged = FALSE]

----------------------------------------------------------------------------
(* The session object of one rank. *)

SessionInit ==
  [ configured          |-> FALSE,
    meshLock            |-> [m \in {} |-> FALSE],        \* _meshLock
    vertexCount         |-> [m \in MeshIDs |-> 0],       \* mesh->vertices().size()
    couplingScheme      |-> NoScheme,                    \* _couplingScheme
    numberAdvanceCalls  |-> 0,                           \* _numberAdvanceCalls
    op                  |-> "construct",   \* the last API call,
    arg                 |-> -1,            \*   its mesh ID (if any),
    result              |-> "ok",          \*   how it ended: ok, error or crash,
    ret                 |-> -1,            \*   what it returned,
    log                 |-> << >> ]        \*   and the steps it performed, in order

Begin(s, op, arg) ==
  [s EXCEPT !.op = op, !.arg = arg, !.result = "ok", !.ret = -1, !.log = << >>]

Log(s, step, what) == [s EXCEPT !.log = Append(@, <<step, what>>)]

\* PRECICE_CHECK / PRECICE_ERROR: the call ends with an error.
Fail(s) == [s EXCEPT !.result = "error"]

\* The process dies inside the call (a null _couplingScheme is dereferenced).
Crash(s) == [s EXCEPT !.result = "crash"]

Return(s, value) == [s EXCEPT !.ret = value]

----------------------------------------------------------------------------
(* configure(): registers the used meshes, unlocked, and constructs the    *)
(* coupling scheme.                                                        *)

\* Mutant: the mesh IDs are registered locked.
RECURSIVE addAllUnlocked_locked(_, _)
addAllUnlocked_locked(lock, ids) ==
  IF ids = {} THEN lock
  ELSE LET id == CHOOSE m \in ids : \A n \in ids : m <= n
       IN addAllUnlocked_locked(MeshLock_add(lock, id, TRUE), ids \ {id})

RECURSIVE addAllUnlocked(_, _)
addAllUnlocked(lock, ids) ==
  IF ids = {} THEN lock
  ELSE LET id == CHOOSE m \in ids : \A n \in ids : m <= n
       IN addAllUnlocked(MeshLock_add(lock, id, FALSE), ids \ {id})

configure(s) ==
  LET s0 == Begin(s, "configure", -1)
  IN [s0 EXCEPT !.configured = TRUE,
                !.couplingScheme = scheme_construct,
                !.meshLock = addAllUnlocked([m \in {} |-> FALSE], MeshIDs)]

----------------------------------------------------------------------------
(* The steps of initialize() and advance(). *)

\* One entry per M2N, in the order of _m2ns (the remote participant's name).
m2nLog(step) == [i \in 1..Len(cfg.m2ns) |-> <<step, cfg.m2ns[i].remoteName>>]

connectMasters(s) ==
  [s EXCEPT !.log = @ \o m2nLog("connectMasters")]

computePartitions(s) ==
  Log(s, "computePartitions", "")

connectSlaves(s) == [s EXCEPT !.log = @ \o m2nLog("connectSlaves")]

initializeWatchPoints(s) == Log(s, "watchPoint.initialize", "")

mapWrittenData(s) == Log(s, "mapWrittenData", "")

mapReadData(s) == Log(s, "mapReadData", "")

performDataActions(s, when) == Log(s, "performDataActions", when)

handleExports(s) == Log(s, "handleExports", "")

\* Mutant: the call is made but locks nothing.
lockAll_locksNothing(s) == Log(s, "lockAll", "")

lockAll(s) ==
  [Log(s, "lockAll", "") EXCEPT !.meshLock = MeshLock_lockAll(@)]

\* syncTimestep(): a slave sends its timestep length to the master; the master
\* receives one from every slave and checks it against its own.
syncTimestep(s, dt, slaveDt) ==
  IF isSlave THEN Log(s, "syncTimestep", "send")
  ELSE IF \A r \in 1..(cfg.size - 1) : equals(slaveDt[r], dt)
       THEN Log(s, "syncTimestep", "receive")
       ELSE Fail(Log(s, "syncTimestep", "receive"))

\* The sync is compiled in debug builds only, and runs with a master only.
syncIfDebug(s, dt, slaveDt) ==
  IF cfg.debug /\ (isMaster \/ isSlave) THEN syncTimestep(s, dt, slaveDt) ELSE s

----------------------------------------------------------------------------
(* A call through _couplingScheme after finalize() has released it is       *)
(* undefined. ub is what the build makes of it: "crash" (the process dies   *)
(* in the call) or "survive" (the call returns without effect, a flag read  *)
(* through the pointer is garbage: false in a check, exch in initialize()). *)
(* While the scheme is set, ub is "none".                                   *)

(* initialize(). *)

\* Mutant: the partitions are computed before the masters are connected.
initializeSetup_partitionsFirst(s) ==
  initializeWatchPoints(connectSlaves(connectMasters(computePartitions(s))))

\* The channels and the partitions: masters, partitions, slaves, watchpoints.
initializeSetup(s) ==
  initializeWatchPoints(connectSlaves(computePartitions(connectMasters(s))))

initialize(s, exch, ub) ==
  LET s4 == initializeSetup(Begin(s, "initialize", -1))
  IN IF ~s4.couplingScheme.alive /\ ub = "crash" THEN Crash(s4)
     ELSE
       LET s5 == IF s4.couplingScheme.alive
                 THEN [Log(s4, "scheme.initialize", "") EXCEPT
                         !.couplingScheme = scheme_initialize(@, 0, 1, exch)]
                 ELSE Log(s4, "scheme.initialize", "")
           hasDataBeenExchanged ==
             IF s5.couplingScheme.alive THEN s5.couplingScheme.exchanged ELSE exch
           s6 == IF hasDataBeenExchanged THEN mapReadData(s5) ELSE s5
           s7 == performDataActions(s6, "post")
           s8 == lockAll(s7)
       IN Return(s8, getNextTimestepMaxLength(s8.couplingScheme))

----------------------------------------------------------------------------
(* advance(computedTimestepLength). *)

\* From addComputedTime() to the read mapping.
advanceExchange(s, dt) ==
  LET s3 == [Log(s, "scheme.addComputedTime", "") EXCEPT
               !.couplingScheme = scheme_addComputedTime(@, dt)]
      s4 == mapWrittenData(s3)
      s5 == performDataActions(s4, "prior")
      s6 == [Log(s5, "scheme.advance", "") EXCEPT
               !.couplingScheme = scheme_advance(@)]
      s7 == performDataActions(s6, "post")
  IN IF s7.couplingScheme.exchanged THEN mapReadData(s7) ELSE s7

\* Mutant: the meshes are locked before the exports are handled.
advanceTail_locksFirst(s) ==
  LET s10 == handleExports(lockAll(s))
  IN Return(Log(s10, "scheme.getNextTimestepMaxLength", ""),
            getNextTimestepMaxLength(s10.couplingScheme))

\* The exports, the lock and the returned timestep length.
advanceTail(s) ==
  LET s10 == lockAll(handleExports(s))
  IN Return(Log(s10, "scheme.getNextTimestepMaxLength", ""),
            getNextTimestepMaxLength(s10.couplingScheme))

\* Mutant: the call is counted before its preconditions are checked.
advance_countsFirst(s, dt, slaveDt, ub) ==
  LET s0 == [Begin(s, "advance", -1) EXCEPT !.numberAdvanceCalls = @ + 1]
  IN IF ~s0.couplingScheme.alive
       THEN (IF ub = "crash" THEN Crash(s0) ELSE Fail(s0))
     ELSE IF ~s0.couplingScheme.initialized THEN Fail(s0)
     ELSE IF ~isCouplingOngoing(s0.couplingScheme) THEN Fail(s0)
     ELSE
       LET s2 == syncIfDebug(s0, dt, slaveDt)
       IN IF s2.result = "error" THEN s2
          ELSE advanceTail(advanceExchange(s2, dt))

advance(s, dt, slaveDt, ub) ==
  LET s0 == Begin(s, "advance", -1)
  IN IF ~s0.couplingScheme.alive
       THEN (IF ub = "crash" THEN Crash(s0) ELSE Fail(s0))
     ELSE IF ~s0.couplingScheme.initialized THEN Fail(s0)
     ELSE IF ~isCouplingOngoing(s0.couplingScheme) THEN Fail(s0)
     ELSE
       LET s1 == [s0 EXCEPT !.numberAdvanceCalls = @ + 1]
           s2 == syncIfDebug(s1, dt, slaveDt)
       IN IF s2.result = "error" THEN s2
          ELSE advanceTail(advanceExchange(s2, dt))

----------------------------------------------------------------------------
(* Mesh modification. *)

\* PRECICE_REQUIRE_MESH_MODIFY(meshID): a known mesh that is not locked.
requireMeshModify(s, meshID) ==
  meshID \in DOMAIN s.meshLock /\ ~MeshLock_check(s.meshLock, meshID)

setMeshVertex(s, meshID) ==
  LET s0 == Begin(s, "setMeshVertex", meshID)
  IN IF ~requireMeshModify(s0, meshID) THEN Fail(s0)
     ELSE Return([s0 EXCEPT !.vertexCount[meshID] = @ + 1],
                 s0.vertexCount[meshID])

\* Mutant: the mesh is cleared but stays locked.
resetMesh_keepsLock(s, meshID) ==
  LET s0 == Begin(s, "resetMesh", meshID)
      context == cfg.meshContext[meshID]
      hasMapping == context.fromMappingContext.mapping
                      \/ context.toMappingContext.mapping
      isStationary == context.fromMappingContext.timing = INITIAL
                        /\ context.toMappingContext.timing = INITIAL
  IN IF meshID \notin DOMAIN s0.meshLock THEN Fail(s0)
     ELSE IF isStationary THEN Fail(s0)
     ELSE IF ~hasMapping THEN Fail(s0)
     ELSE [s0 EXCEPT !.vertexCount[meshID] = 0]

resetMesh(s, meshID) ==
  LET s0 == Begin(s, "resetMesh", meshID)
      context == cfg.meshContext[meshID]
      hasMapping == context.fromMappingContext.mapping
                      \/ context.toMappingContext.mapping
      isStationary == context.fromMappingContext.timing = INITIAL
                        /\ context.toMappingContext.timing = INITIAL
  IN IF meshID \notin DOMAIN s0.meshLock THEN Fail(s0)
     ELSE IF isStationary THEN Fail(s0)
     ELSE IF ~hasMapping THEN Fail(s0)
     ELSE [s0 EXCEPT !.meshLock = MeshLock_unlock(@, meshID),
                     !.vertexCount[meshID] = 0]

----------------------------------------------------------------------------
(* finalize(), seen from one rank whose peers cooperate. With an export     *)
(* context that triggers a solver plot, finalize() itself calls             *)
(* requireAction() through the pointer it has just reset.                   *)

RECURSIVE drainM2Ns(_, _)
drainM2Ns(s, i) ==
  IF i > Len(cfg.m2ns) THEN s
  ELSE
    LET bm2n == cfg.m2ns[i]
        s1 == IF isSlave THEN s
              ELSE IF bm2n.isRequesting
                   THEN Log(Log(s, "send ping", bm2n.remoteName),
                            "receive pong", bm2n.remoteName)
                   ELSE Log(Log(s, "receive ping", bm2n.remoteName),
                            "send pong", bm2n.remoteName)
    IN drainM2Ns(Log(s1, "m2n.closeConnection", bm2n.remoteName), i + 1)

finalize(s, ub) ==
  LET s0 == Begin(s, "finalize", -1)
  IN IF ~s0.couplingScheme.alive
       THEN (IF ub = "crash" THEN Crash(s0) ELSE Fail(s0))
     ELSE IF ~s0.couplingScheme.initialized THEN Fail(s0)
     ELSE
       LET s1 == [Log(s0, "scheme.finalize", "") EXCEPT !.couplingScheme = NoScheme]
       IN IF cfg.plotExport /\ ub = "crash"
            THEN Crash(Log(s1, "exportMesh", "final"))
          ELSE
            LET s2 == IF cfg.plotExport THEN Log(s1, "exportMesh", "final") ELSE s1
                s3 == drainM2Ns(s2, 1)
            IN IF isSlave \/ isMaster
                 THEN Log(s3, "MasterSlave.closeConnection", "")
               ELSE s3

----------------------------------------------------------------------------
(* Spec: the session of one rank, one action per API call. *)

\* What has happened to the session: initialize() has returned; the meshes
\* reset since the last return of initialize() or advance(); and of these,
\* the ones that were still reset when the call just made returned.
HistInit == [initialized |-> FALSE, resetSince |-> {}, relocked |-> {}]

locksAgain(s) == s.op \in {"initialize", "advance"} /\ s.result = "ok"

histAfter(h, s) ==
  [ initialized |-> h.initialized \/ (s.op = "initialize" /\ s.result = "ok"),
    resetSince  |-> IF locksAgain(s) THEN {}
                    ELSE IF s.op = "resetMesh" /\ s.result = "ok"
                         THEN h.resetSince \cup {s.arg}
                         ELSE h.resetSince,
    relocked    |-> IF locksAgain(s) THEN h.resetSince ELSE {} ]

Idle == [pc |-> "idle"]

Init ==
  /\ cfg \in Configurations
  /\ sess = SessionInit
  /\ hist = HistInit
  /\ ranks = Idle /\ syncCh = Idle /\ fin = Idle /\ m2nCh = Idle
  /\ part = Idle /\ disp = Idle /\ cpl = Idle
  /\ iter = Idle /\ conf = Idle /\ data = Idle /\ geo = Idle

Call(s) ==
  /\ sess' = s
  /\ hist' = histAfter(hist, s)
  /\ UNCHANGED <<cfg, ranks, syncCh, fin, m2nCh, part, disp, cpl, iter, conf, data, geo>>

Running == sess.configured /\ sess.result # "crash"

Configure == ~sess.configured /\ Call(configure(sess))

\* The outcomes of a dereference of _couplingScheme: none while it is set.
ubOutcomes(s) ==
  IF s.couplingScheme.alive THEN {"none"} ELSE {"crash", "survive"}

\* The timestep lengths the slaves may submit: read by a debug master only.
slaveDtChoices(dt) ==
  IF cfg.debug /\ isMaster
  THEN [1..(cfg.size - 1) -> {dt, dt + 1, dt + 2}]
  ELSE {[r \in 1..(cfg.size - 1) |-> dt]}

Initialize ==
  /\ Running
  /\ \E exch \in BOOLEAN, ub \in ubOutcomes(sess) :
       Call(initialize(sess, exch, ub))

Advance ==
  /\ Running
  /\ sess.numberAdvanceCalls < MaxAdvanceCalls
  /\ \E dt \in 1..getThisTimestepRemainder(sess.couplingScheme),
        ub \in ubOutcomes(sess) :
       \E slaveDt \in slaveDtChoices(dt) :
          Call(advance(sess, dt, slaveDt, ub))

SetMeshVertex ==
  /\ Running
  /\ \E meshID \in MeshIDs :
       /\ (sess.vertexCount[meshID] < MaxVertices
             \/ ~requireMeshModify(sess, meshID))
       /\ Call(setMeshVertex(sess, meshID))

ResetMesh ==
  /\ Running
  /\ \E meshID \in MeshIDs : Call(resetMesh(sess, meshID))

Finalize ==
  /\ Running
  /\ \E ub \in IF cfg.plotExport THEN {"crash", "survive"} ELSE ubOutcomes(sess) :
       Call(finalize(sess, ub))

Next ==
  \/ Configure
  \/ Initialize
  \/ Advance
  \/ SetMeshVertex
  \/ ResetMesh
  \/ Finalize

Spec == Init /\ [][Next]_vars

----------------------------------------------------------------------------
(* Claims about the session (checked under Spec). A step that makes call   *)
(* op is a step to a state whose sess.op is op; sess is the state before   *)
(* the call, sess' the state after it.                                     *)

Returned(s, op) == s.op = op /\ s.result = "ok"

AllLocked(s) ==
  DOMAIN s.meshLock = MeshIDs /\ \A m \in MeshIDs : MeshLock_check(s.meshLock, m)

\* C1: once initialize() has returned, setMeshVertex() on a mesh that has not
\* been reset since the meshes were last locked fails and adds no vertex; on a
\* mesh reset since then it succeeds and adds one vertex.
C1_LockEnforcement ==
  [][ sess'.op = "setMeshVertex" =>
        LET m == sess'.arg
        IN /\ (hist.initialized /\ m \notin hist.resetSince) =>
                (sess'.result = "error" /\ sess'.vertexCount = sess.vertexCount)
           /\ (m \in hist.resetSince) =>
                /\ sess'.result = "ok"
                /\ sess'.ret = sess.vertexCount[m]
                /\ sess'.vertexCount = [sess.vertexCount EXCEPT ![m] = @ + 1] ]_vars

\* C1 witness: after initialize(), a vertex has been added to a reset mesh.
C1_Witness ==
  /\ Returned(sess, "setMeshVertex")
  /\ hist.initialized
  /\ sess.arg \in hist.resetSince
  /\ sess.vertexCount[sess.arg] = 1

\* C2: when initialize() or advance() returns normally every registered mesh
\* is locked, and resetMesh(id) leaves the lock of every other mesh as it was
\* (and unlocks mesh id when it succeeds).
C2_LockedOnReturn ==
  [][ /\ locksAgain(sess') => AllLocked(sess')
      /\ sess'.op = "resetMesh" =>
           /\ \A m \in MeshIDs \ {sess'.arg} :
                sess'.meshLock[m] = sess.meshLock[m]
           /\ sess'.result = "ok" => ~sess'.meshLock[sess'.arg]
           /\ sess'.result # "ok" => sess'.meshLock = sess.meshLock ]_vars

\* C2 witness: advance() has returned and has locked a mesh that resetMesh()
\* had unlocked.
C2_Witness ==
  /\ Returned(sess, "advance")
  /\ hist.relocked # {}
  /\ AllLocked(sess)

\* The order of the steps of advance(); sync: the timestep sync runs;
\* exchanged: the scheme reports that data has been exchanged.
AdvanceOrder(sync, exchanged) ==
  (IF sync THEN << <<"syncTimestep", IF isSlave THEN "send" ELSE "receive">> >>
   ELSE << >>)
  \o << <<"scheme.addComputedTime", "">>,
        <<"mapWrittenData", "">>,
        <<"performDataActions", "prior">>,
        <<"scheme.advance", "">>,
        <<"performDataActions", "post">> >>
  \o (IF exchanged THEN << <<"mapReadData", "">> >> ELSE << >>)
  \o << <<"handleExports", "">>,
        <<"lockAll", "">>,
        <<"scheme.getNextTimestepMaxLength", "">> >>

InitializeSteps ==
  { "connectMasters", "computePartitions", "connectSlaves",
    "watchPoint.initialize", "scheme.initialize", "mapReadData", "lockAll" }

IsInitializeStep(e) == e[1] \in InitializeSteps

InitializeOrder(exchanged) ==
  m2nLog("connectMasters")
  \o << <<"computePartitions", "">> >>
  \o m2nLog("connectSlaves")
  \o << <<"watchPoint.initialize", "">>,
        <<"scheme.initialize", "">> >>
  \o (IF exchanged THEN << <<"mapReadData", "">> >> ELSE << >>)
  \o << <<"lockAll", "">> >>

\* C4: an initialize() that returns has connected the masters of every M2N,
\* then computed the partitions, then connected the slaves of every M2N, then
\* initialized the watchpoints, then called scheme.initialize(0, 1), then run
\* the read mapping only if data has been exchanged, and locked the meshes as
\* its last step: no lock precedes the partitions.
C4_InitializeOrder ==
  Returned(sess, "initialize") =>
    /\ SelectSeq(sess.log, IsInitializeStep) \in
         { InitializeOrder(e) :
             e \in IF sess.couplingScheme.alive
                   THEN {sess.couplingScheme.exchanged} ELSE BOOLEAN }
    /\ sess.log[Len(sess.log)] = <<"lockAll", "">>
    /\ sess.couplingScheme.alive =>
         /\ sess.couplingScheme.initialized
         /\ sess.couplingScheme.time = 0
         /\ sess.couplingScheme.timeWindow = 1
    /\ AllLocked(sess)

\* C4 witness: an initialize() in which data has been exchanged.
C4_Witness ==
  /\ Returned(sess, "initialize")
  /\ sess.couplingScheme.alive /\ sess.couplingScheme.exchanged
  /\ Len(SelectSeq(sess.log, IsInitializeStep)) = 2 * Len(cfg.m2ns) + 5

\* C5: an advance() called on a scheme that is not initialized, or whose
\* coupling is no longer ongoing, fails; it performs no step (no
\* addComputedTime, mapping, data action or scheme.advance) and leaves the
\* advance-call counter, the scheme and the locks as they were.
C5_AdvancePreconditions ==
  [][ ( /\ sess'.op = "advance"
        /\ sess.couplingScheme.alive
        /\ ( ~sess.couplingScheme.initialized
             \/ ~isCouplingOngoing(sess.couplingScheme) ) )
      => /\ sess'.result = "error"
         /\ sess'.log = << >>
         /\ sess'.numberAdvanceCalls = sess.numberAdvanceCalls
         /\ sess'.couplingScheme = sess.couplingScheme
         /\ sess'.meshLock = sess.meshLock ]_vars

\* C5 witness: advance() has been refused after the last time window.
C5_Witness ==
  /\ sess.op = "advance" /\ sess.result = "error"
  /\ sess.couplingScheme.initialized
  /\ ~isCouplingOngoing(sess.couplingScheme)
  /\ sess.numberAdvanceCalls > 0

\* C6 as stated: initialize() called on a session whose initialize() has
\* already returned fails and performs none of its steps.
C6_AsStated ==
  [][ (sess'.op = "initialize" /\ hist.initialized)
      => (sess'.result = "error" /\ sess'.log = << >>) ]_vars

----------------------------------------------------------------------------
(* SpecSync: the ranks of one participant with a master, each in its own   *)
(* process, calling advance(); rank 0 is the master. The master-slave      *)
(* channel is one FIFO per slave. What follows the sync in advance() is a  *)
(* local step here: the exchange with the other participants is not a      *)
(* matter of these ranks.                                                  *)

SyncConfigurations == [debug : BOOLEAN, size : {2, 3}]

\* The timestep lengths a rank may pass to advance(): the master's is fixed,
\* a slave's is the same, within the tolerance of it, or off.
dtChoices(r) == IF r = 0 THEN {2} ELSE {2, 3, 4}

SyncRanks == 0..(cfg.size - 1)

RankInit == [pc |-> "idle", call |-> 0, dts |-> << >>, added |-> 0, rankSlave |-> 1]

SyncInit ==
  /\ cfg \in SyncConfigurations
  /\ ranks = [r \in SyncRanks |-> RankInit]
  /\ syncCh = [r \in SyncRanks \ {0} |-> << >>]
  /\ sess = SessionInit /\ hist = HistInit /\ fin = Idle /\ m2nCh = Idle
  /\ part = Idle /\ disp = Idle /\ cpl = Idle
  /\ iter = Idle /\ conf = Idle /\ data = Idle /\ geo = Idle

\* A step of rank r leaves the rest alone.
SyncFrame(r) == r \in SyncRanks /\ UNCHANGED <<cfg, sess, hist, fin, m2nCh, part, disp, cpl, iter, conf, data, geo>>

\* advance() up to the sync: the call is counted; the sync is compiled in a
\* debug build only.
SyncEnter(r) ==
  /\ SyncFrame(r)
  /\ ranks[r].pc \in {"idle", "returned"}
  /\ ranks[r].call < MaxSyncCalls
  /\ \E dt \in dtChoices(r) :
       ranks' = [ranks EXCEPT ![r] =
                   [@ EXCEPT !.pc = IF cfg.debug THEN "sync" ELSE "exchange",
                             !.call = @ + 1,
                             !.dts = Append(@, dt),
                             !.rankSlave = 1]]
  /\ UNCHANGED syncCh

\* syncTimestep() on a slave: send the timestep length to the master.
SyncSend(r) ==
  /\ SyncFrame(r)
  /\ r # 0
  /\ ranks[r].pc = "sync"
  /\ syncCh' = [syncCh EXCEPT ![r] = Append(@, ranks[r].dts[ranks[r].call])]
  /\ ranks' = [ranks EXCEPT ![r].pc = "exchange"]

\* Mutant: the master's loop stops one slave short.
lastSlave_oneShort == cfg.size - 2

\* The last rank the master's loop receives from.
lastSlave == cfg.size - 1

\* syncTimestep() on the master: receive the next slave's timestep length
\* (blocking) and check it against the master's own.
SyncReceive(r) ==
  /\ SyncFrame(r)
  /\ r = 0
  /\ ranks[0].pc = "sync"
  /\ LET k == ranks[0].rankSlave
     IN IF k > lastSlave
        THEN /\ ranks' = [ranks EXCEPT ![0].pc = "exchange"]
             /\ UNCHANGED syncCh
        ELSE /\ syncCh[k] # << >>
             /\ syncCh' = [syncCh EXCEPT ![k] = Tail(@)]
             /\ ranks' = [ranks EXCEPT ![0] =
                  IF equals(Head(syncCh[k]), ranks[0].dts[ranks[0].call])
                  THEN [@ EXCEPT !.rankSlave = k + 1]
                  ELSE [@ EXCEPT !.pc = "failed"]]

\* The rest of advance(), from scheme.addComputedTime() to the return.
SyncExchange(r) ==
  /\ SyncFrame(r)
  /\ ranks[r].pc = "exchange"
  /\ ranks' = [ranks EXCEPT ![r] = [@ EXCEPT !.pc = "returned", !.added = @ + 1]]
  /\ UNCHANGED syncCh

RankStep(r) ==
  \/ SyncEnter(r)
  \/ SyncSend(r)
  \/ SyncReceive(r)
  \/ SyncExchange(r)

SyncNext == \E r \in {0, 1, 2} : RankStep(r)

\* Every rank is a process of its own: none of them is starved.
SpecSync ==
  SyncInit /\ [][SyncNext]_vars /\ \A r \in {0, 1, 2} : WF_vars(RankStep(r))

----------------------------------------------------------------------------
(* Claims about the timestep sync (checked under SpecSync). *)

SyncSlaves == SyncRanks \ {0}

\* Slave r has called advance() for the k-th time with a timestep length that
\* the master's k-th does not equal.
Differs(r, k) ==
  /\ ranks[r].call >= k /\ ranks[0].call >= k
  /\ ~equals(ranks[r].dts[k], ranks[0].dts[k])

\* The master has passed the sync of its current call.
MasterPassed == ranks[0].pc \in {"exchange", "returned"} /\ ranks[0].call > 0

SyncDone ==
  \A r \in SyncRanks :
    \/ ranks[r].pc = "returned" /\ ranks[r].call = MaxSyncCalls
    \/ ranks[r].pc = "failed"

----------------------------------------------------------------------------
(* SpecFinalize: the participants A, B and C, each with a master and, if   *)
(* it runs in parallel, one slave, every rank in its own process, calling  *)
(* finalize(). An M2N's master communication is one FIFO per direction.    *)
(* A receive blocks until a message is there; a receive from a peer that   *)
(* has gone fails, and a send to it fails or is buffered.                  *)

Names == {"A", "B", "C"}

\* The order of _m2ns, a map keyed by the remote participant's name.
NameOrder == <<"A", "B", "C">>

Pairs == {<<"A", "B">>, <<"A", "C">>, <<"B", "C">>}

\* The configurations: the communicator size of every participant, at most
\* one of them running with a slave; per pair
\* of participants the one that requests the connection, or no M2N; the
\* participant with an export context that triggers a solver plot; and the
\* participant that has terminated before its finalize().
FinConfigurations ==
  [ size      : {f \in [Names -> {1, 2}] :
                   \A p, q \in Names : (f[p] = 2 /\ f[q] = 2) => p = q},
    requester : {f \in [Pairs -> Names \cup {"none"}] :
                   \A pr \in Pairs : f[pr] \in {"none", pr[1], pr[2]}},
    exporting : Names \cup {"none"},
    dead      : Names \cup {"none"} ]

Procs == {pr \in Names \X {0, 1} : pr[2] < cfg.size[pr[1]]}

DirPairs == {pq \in Names \X Names : pq[1] # pq[2]}

PairOf(p, q) == IF <<p, q>> \in Pairs THEN <<p, q>> ELSE <<q, p>>

Connected(p, q) == p # q /\ cfg.requester[PairOf(p, q)] # "none"

\* _m2ns of participant p, in the order of the loop of finalize().
m2nsOf(p) ==
  LET remotes == SelectSeq(NameOrder, LAMBDA q : Connected(p, q))
  IN [k \in 1..Len(remotes) |->
        BoundM2N(remotes[k], cfg.requester[PairOf(p, remotes[k])] = p)]

\* Mutant: the accepting master sends its pong before it receives the ping.
pingPongSteps_acceptorSendsFirst(isRequesting) ==
  <<"send", "receive", "close">>

\* What the loop body of finalize() does with one M2N on a master.
pingPongSteps(isRequesting) ==
  IF isRequesting THEN <<"send", "receive", "close">>
                  ELSE <<"receive", "send", "close">>

\* A slave skips the ping/pong.
stepsOf(r, bm2n) ==
  IF r > 0 THEN <<"close">> ELSE pingPongSteps(bm2n.isRequesting)

FinInit ==
  /\ cfg \in FinConfigurations
  /\ fin = [pr \in Procs |->
              [pc |-> IF pr[1] = cfg.dead THEN "dead" ELSE "idle", i |-> 1, j |-> 1]]
  /\ m2nCh = [buf |-> [pq \in DirPairs |-> << >>],
              sent |-> [pq \in DirPairs |-> 0],
              closed |-> {}, msClosed |-> {}, unexpected |-> FALSE]
  /\ sess = SessionInit /\ hist = HistInit /\ ranks = Idle /\ syncCh = Idle
  /\ part = Idle /\ disp = Idle /\ cpl = Idle
  /\ iter = Idle /\ conf = Idle /\ data = Idle /\ geo = Idle

\* The step a running rank is at: of the current M2N, or the end of the loop.
CurStep(pr) ==
  LET ms == m2nsOf(pr[1])
  IN IF fin[pr].pc # "run" THEN "none"
     ELSE IF fin[pr].i > Len(ms) THEN "return"
     ELSE stepsOf(pr[2], ms[fin[pr].i])[fin[pr].j]

Remote(pr) == m2nsOf(pr[1])[fin[pr].i].remoteName

\* The rank after its current step.
Stepped(pr) ==
  LET ms == m2nsOf(pr[1])
  IN IF fin[pr].j < Len(stepsOf(pr[2], ms[fin[pr].i]))
       THEN [fin[pr] EXCEPT !.j = @ + 1]
       ELSE [fin[pr] EXCEPT !.i = @ + 1, !.j = 1]

\* The master of q will put nothing more on its channel to p.
Gone(q, p) ==
  \/ fin[<<q, 0>>].pc \in {"dead", "crashed", "failed"}
  \/ <<<<q, 0>>, p>> \in m2nCh.closed

\* A step of a rank leaves the rest alone.
FinFrame(pr) == pr \in Procs /\ UNCHANGED <<cfg, sess, hist, ranks, syncCh, part, disp, cpl, iter, conf, data, geo>>

\* finalize() up to the loop: the scheme is finalized and released, and then
\* used again if an export context triggers a solver plot.
FinStart(pr) ==
  /\ FinFrame(pr)
  /\ fin[pr].pc = "idle"
  /\ \E ub \in IF cfg.exporting = pr[1] THEN {"crash", "survive"} ELSE {"survive"} :
       fin' = [fin EXCEPT ![pr].pc = IF ub = "crash" THEN "crashed" ELSE "run"]
  /\ UNCHANGED m2nCh

FinSend(pr) ==
  /\ FinFrame(pr)
  /\ CurStep(pr) = "send"
  /\ LET p == pr[1]
         q == Remote(pr)
         msg == IF m2nsOf(p)[fin[pr].i].isRequesting THEN "ping" ELSE "pong"
     IN \/ /\ Gone(q, p)
           /\ fin' = [fin EXCEPT ![pr].pc = "failed"]
           /\ UNCHANGED m2nCh
        \/ /\ fin' = [fin EXCEPT ![pr] = Stepped(pr)]
           /\ m2nCh' = [m2nCh EXCEPT !.buf[<<p, q>>] = Append(@, msg),
                                     !.sent[<<p, q>>] = @ + 1]

FinReceive(pr) ==
  /\ FinFrame(pr)
  /\ CurStep(pr) = "receive"
  /\ LET p == pr[1]
         q == Remote(pr)
         expected == IF m2nsOf(p)[fin[pr].i].isRequesting THEN "pong" ELSE "ping"
     IN IF m2nCh.buf[<<q, p>>] # << >>
        THEN /\ fin' = [fin EXCEPT ![pr] = Stepped(pr)]
             /\ m2nCh' = [m2nCh EXCEPT
                  !.buf[<<q, p>>] = Tail(@),
                  !.unexpected = @ \/ Head(m2nCh.buf[<<q, p>>]) # expected]
        ELSE /\ Gone(q, p)
             /\ fin' = [fin EXCEPT ![pr].pc = "failed"]
             /\ UNCHANGED m2nCh

FinClose(pr) ==
  /\ FinFrame(pr)
  /\ CurStep(pr) = "close"
  /\ fin' = [fin EXCEPT ![pr] = Stepped(pr)]
  /\ m2nCh' = [m2nCh EXCEPT !.closed = @ \cup {<<pr, Remote(pr)>>}]

\* After the loop: close the master-slave communication and return.
FinReturn(pr) ==
  /\ FinFrame(pr)
  /\ CurStep(pr) = "return"
  /\ fin' = [fin EXCEPT ![pr].pc = "returned"]
  /\ m2nCh' = [m2nCh EXCEPT !.msClosed = IF cfg.size[pr[1]] > 1 THEN @ \cup {pr} ELSE @]

FinNext ==
  \E pr \in Names \X {0, 1} :
    \/ FinStart(pr)
    \/ FinSend(pr)
    \/ FinReceive(pr)
    \/ FinClose(pr)
    \/ FinReturn(pr)

SpecFinalize == FinInit /\ [][FinNext]_vars

----------------------------------------------------------------------------
(* Claims about finalize() (checked under SpecFinalize). *)

Master(p) == <<p, 0>>

\* The number of messages the master of p has received from the master of q.
Received(p, q) == m2nCh.sent[<<q, p>>] - Len(m2nCh.buf[<<q, p>>])

IsRequester(p, q) == cfg.requester[PairOf(p, q)] = p

\* No rank can take a step any more.
FinQuiet == ~ENABLED FinNext

\* C8: on every M2N the requesting master sends its ping before it receives
\* the pong and the accepting master receives the ping before it sends its
\* pong; a master closes the M2N only with the peer's one message sent and
\* received; and no master receives another message than the one it expects.
C8_PingPong ==
  /\ ~m2nCh.unexpected
  /\ \A p \in Names : \A q \in Names :
       Connected(p, q) =>
         /\ m2nCh.sent[<<p, q>>] <= 1
         /\ IF IsRequester(p, q)
              THEN Received(p, q) <= m2nCh.sent[<<p, q>>]
              ELSE m2nCh.sent[<<p, q>>] <= Received(p, q)
         /\ <<Master(p), q>> \in m2nCh.closed =>
              /\ m2nCh.sent[<<q, p>>] = 1
              /\ Received(p, q) = 1
              /\ m2nCh.sent[<<p, q>>] = 1

\* C8 witness: with all three M2Ns configured, both masters of a handshake have
\* closed it, on a participant that runs with a slave.
C8_Witness ==
  /\ \A pr \in Pairs : cfg.requester[pr] # "none"
  /\ \E p \in Names : \E q \in Names :
       /\ Connected(p, q) /\ cfg.size[p] = 2
       /\ <<Master(p), q>> \in m2nCh.closed
       /\ <<Master(q), p>> \in m2nCh.closed

\* C9 as stated: with every participant calling finalize(), the run ends only
\* with every finalize() returned, and a rank has closed the master-slave
\* communication only after all of its M2Ns.
C9_AsStated ==
  cfg.dead = "none" =>
    /\ FinQuiet => \A pr \in Procs : fin[pr].pc = "returned"
    /\ \A pr \in m2nCh.msClosed : \A q \in Names :
         Connected(pr[1], q) => <<pr, q>> \in m2nCh.closed

\* C10 as stated: with a participant terminated before its finalize(), the
\* finalize() of every rank of a participant connected to it ends with the
\* error of the channel.
C10_AsStated ==
  (cfg.dead # "none" /\ FinQuiet) =>
    \A pr \in Procs :
      (pr[1] # cfg.dead /\ Connected(pr[1], cfg.dead)) => fin[pr].pc = "failed"

----------------------------------------------------------------------------
(* SpecPartition: the participants A and B, each in its own process, inside *)
(* computePartitions(). A provided partition's communicate() sends the mesh *)
(* to the participant that receives it and a received partition's           *)
(* communicate() receives it, blocking; the send is buffered or, as a       *)
(* rendezvous, returns only when the mesh has been received.                *)

Participants == {"A", "B"}

OtherParticipant(p) == IF p = "A" THEN "B" ELSE "A"

MeshNames == {"M1", "M2", "M3"}

\* The rank of a mesh name in the order of std::string's operator<.
NameRank == [M1 |-> 1, M2 |-> 2, M3 |-> 3]

\* What a participant does with a mesh: a mesh that one receives, the other
\* provides.
PartitionConfigurations ==
  { c \in [ use        : [Participants -> [MeshNames -> {"provide", "receive", "unused"}]],
            rendezvous : BOOLEAN ] :
      \A m \in MeshNames :
        /\ \A p \in Participants :
             c.use[p][m] = "receive" => c.use[OtherParticipant(p)][m] = "provide"
        /\ ~(c.use["A"][m] = "provide" /\ c.use["B"][m] = "provide") }

provideMesh(p, m) == cfg.use[p][m] = "provide"

\* The orders in which usedMeshContexts() of p may list its meshes.
UsedMeshContexts(p) ==
  LET used == {m \in MeshNames : cfg.use[p][m] # "unused"}
  IN {s \in [1..Cardinality(used) -> used] : \A i, j \in DOMAIN s : s[i] = s[j] => i = j}

\* std::sort by mesh name, as an insertion sort.
RECURSIVE sortByName(_)
sortByName(contexts) ==
  IF contexts = << >> THEN << >>
  ELSE LET rest == sortByName(Tail(contexts))
           x == Head(contexts)
       IN SelectSeq(rest, LAMBDA m : NameRank[m] < NameRank[x])
            \o <<x>>
            \o SelectSeq(rest, LAMBDA m : ~(NameRank[m] < NameRank[x]))

\* Mutant: the contexts are left in the order of the configuration.
sortedContexts_unsorted(contexts) == contexts

\* The contexts after the sort: the order of the first loop.
sortedContexts(contexts) == sortByName(contexts)

\* Mutant: the provided meshes are not pulled up front.
providedFirst_unchanged(p, contexts) == contexts

\* std::stable_partition on provideMesh: the order of the second loop.
providedFirst(p, contexts) ==
  SelectSeq(contexts, LAMBDA m : provideMesh(p, m))
    \o SelectSeq(contexts, LAMBDA m : ~provideMesh(p, m))

RECURSIVE communicateLoop(_)
communicateLoop(contexts) ==
  IF contexts = << >> THEN << >>
  ELSE <<<<"communicate", Head(contexts)>>>> \o communicateLoop(Tail(contexts))

RECURSIVE computeLoop(_)
computeLoop(contexts) ==
  IF contexts = << >> THEN << >>
  ELSE << <<"compute", Head(contexts)>>,
          <<"computeState", Head(contexts)>>,
          <<"allocateDataValues", Head(contexts)>> >> \o computeLoop(Tail(contexts))

\* Mutant: one loop that communicates and computes mesh by mesh.
RECURSIVE oneLoop(_)
oneLoop(contexts) ==
  IF contexts = << >> THEN << >>
  ELSE <<<<"communicate", Head(contexts)>>>> \o computeLoop(<<Head(contexts)>>)
         \o oneLoop(Tail(contexts))

computePartitionsCalls_oneLoop(p, contexts) == oneLoop(sortedContexts(contexts))

\* The calls of computePartitions() of participant p, in order.
computePartitionsCalls(p, contexts) ==
  LET sorted == sortedContexts(contexts)
  IN communicateLoop(sorted) \o computeLoop(providedFirst(p, sorted))

PartInit ==
  /\ cfg \in PartitionConfigurations
  /\ \E a \in UsedMeshContexts("A"), b \in UsedMeshContexts("B") :
       part = [ proc |-> [p \in Participants |->
                           [pc |-> "run", k |-> 1,
                            contexts |-> IF p = "A" THEN a ELSE b]],
                buf |-> [p \in Participants |-> << >>],
                mismatch |-> FALSE ]
  /\ sess = SessionInit /\ hist = HistInit /\ ranks = Idle /\ syncCh = Idle
  /\ fin = Idle /\ m2nCh = Idle /\ disp = Idle /\ cpl = Idle
  /\ iter = Idle /\ conf = Idle /\ data = Idle /\ geo = Idle

Calls(p) == computePartitionsCalls(p, part.proc[p].contexts)

\* The calls p has made (the last one may still be blocked in its send).
PartLog(p) ==
  SubSeq(Calls(p), 1,
         IF part.proc[p].pc = "sending" THEN part.proc[p].k ELSE part.proc[p].k - 1)

\* The call p is about to make.
NextCall(p) ==
  IF part.proc[p].pc = "run" /\ part.proc[p].k <= Len(Calls(p))
    THEN Calls(p)[part.proc[p].k]
    ELSE <<"none", "none">>

\* The participant the mesh of the call is sent to or received from, if any.
Sends(p, call) ==
  /\ call[1] = "communicate" /\ provideMesh(p, call[2])
  /\ cfg.use[OtherParticipant(p)][call[2]] = "receive"

Receives(p, call) == call[1] = "communicate" /\ cfg.use[p][call[2]] = "receive"

PartFrame(p) ==
  p \in Participants /\ UNCHANGED <<cfg, sess, hist, ranks, syncCh, fin, m2nCh, disp, cpl, iter, conf, data, geo>>

\* ProvidedPartition::communicate(): send the mesh to its receiver.
PartSend(p) ==
  /\ PartFrame(p)
  /\ Sends(p, NextCall(p))
  /\ part' = [part EXCEPT
       !.buf[OtherParticipant(p)] = Append(@, NextCall(p)[2]),
       !.proc[p] = IF cfg.rendezvous THEN [@ EXCEPT !.pc = "sending"]
                                     ELSE [@ EXCEPT !.k = @ + 1]]

\* The rendezvous send returns: the mesh has been received.
PartSendDone(p) ==
  /\ PartFrame(p)
  /\ part.proc[p].pc = "sending"
  /\ part.buf[OtherParticipant(p)] = << >>
  /\ part' = [part EXCEPT !.proc[p] = [@ EXCEPT !.pc = "run", !.k = @ + 1]]

\* ReceivedPartition::communicate(): receive the mesh, blocking.
PartReceive(p) ==
  /\ PartFrame(p)
  /\ Receives(p, NextCall(p))
  /\ part.buf[p] # << >>
  /\ part' = [part EXCEPT
       !.buf[p] = Tail(@),
       !.mismatch = @ \/ Head(part.buf[p]) # NextCall(p)[2],
       !.proc[p].k = @ + 1]

\* The calls that do not communicate with the other participant: a
\* communicate() of a mesh nobody receives, or one pass of the second loop
\* (compute(), computeState(), allocateDataValues()).
PartLocal(p) ==
  /\ PartFrame(p)
  /\ NextCall(p)[1] # "none"
  /\ ~Sends(p, NextCall(p)) /\ ~Receives(p, NextCall(p))
  /\ part' = [part EXCEPT
       !.proc[p].k = IF NextCall(p)[1] = "compute" THEN @ + 3 ELSE @ + 1]

PartReturn(p) ==
  /\ PartFrame(p)
  /\ part.proc[p].pc = "run" /\ part.proc[p].k > Len(Calls(p))
  /\ part' = [part EXCEPT !.proc[p].pc = "done"]

PartNext ==
  \E p \in {"A", "B"} :
    \/ PartSend(p)
    \/ PartSendDone(p)
    \/ PartReceive(p)
    \/ PartLocal(p)
    \/ PartReturn(p)

SpecPartition == PartInit /\ [][PartNext]_vars

----------------------------------------------------------------------------
(* Claims about computePartitions() (checked under SpecPartition). *)

UsedMeshes(p) == {m \in MeshNames : cfg.use[p][m] # "unused"}

\* The positions of a log with a call of op.
CallsOf(log, op) == {i \in 1..Len(log) : log[i][1] = op}

\* The number of calls of op on mesh m in a log.
CountOf(log, op, m) == Cardinality({i \in 1..Len(log) : log[i] = <<op, m>>})

\* C11: every communicate() of a participant precedes its first compute(),
\* which is called only with every used mesh communicated; no mesh gets a
\* second communicate() or compute(), and at the end every used mesh has got
\* one of each; compute() on a mesh is directly followed by computeState() and
\* allocateDataValues() on that mesh.
C11_TwoPasses ==
  \A p \in Participants :
    LET log == PartLog(p)
    IN /\ \A i \in CallsOf(log, "compute") : \A j \in CallsOf(log, "communicate") : j < i
       /\ CallsOf(log, "compute") # {} =>
            \A m \in UsedMeshes(p) : CountOf(log, "communicate", m) = 1
       /\ \A m \in MeshNames :
            /\ CountOf(log, "communicate", m) <= 1 /\ CountOf(log, "compute", m) <= 1
            /\ (part.proc[p].pc = "done" /\ m \in UsedMeshes(p)) =>
                 (CountOf(log, "communicate", m) = 1 /\ CountOf(log, "compute", m) = 1)
            /\ m \notin UsedMeshes(p) =>
                 (CountOf(log, "communicate", m) = 0 /\ CountOf(log, "compute", m) = 0)
       /\ \A i \in CallsOf(log, "compute") :
            /\ i + 2 <= Len(log)
            /\ log[i + 1] = <<"computeState", log[i][2]>>
            /\ log[i + 2] = <<"allocateDataValues", log[i][2]>>

\* C11 witness: a participant that uses three meshes, providing one of them
\* and receiving another, has returned from computePartitions().
C11_Witness ==
  \E p \in Participants :
    /\ part.proc[p].pc = "done"
    /\ UsedMeshes(p) = MeshNames
    /\ \E m \in MeshNames : cfg.use[p][m] = "provide"
    /\ \E m \in MeshNames : cfg.use[p][m] = "receive"

\* No participant can take a step any more.
PartQuiet == ~ENABLED PartNext

\* C12: computePartitions() of the two participants ends only with both of
\* them returned, whatever meshes they exchange and in whichever direction;
\* every receive gets the mesh it is for and no sent mesh is left over.
C12_NoDeadlock ==
  /\ ~part.mismatch
  /\ PartQuiet =>
       /\ \A p \in Participants : part.proc[p].pc = "done"
       /\ \A p \in Participants : part.buf[p] = << >>

\* C12 witness: A provides M1 and receives M2, B provides M2 and receives M1,
\* the sends are rendezvous, and both participants have returned.
C12_Witness ==
  /\ cfg.rendezvous
  /\ cfg.use["A"]["M1"] = "provide" /\ cfg.use["B"]["M1"] = "receive"
  /\ cfg.use["B"]["M2"] = "provide" /\ cfg.use["A"]["M2"] = "receive"
  /\ \A p \in Participants : part.proc[p].pc = "done"

\* C13: a participant's communicate() calls are in ascending order of the
\* mesh name; its compute() calls are on the provided meshes first, in
\* ascending order of the name, and then on the received ones, in ascending
\* order of the name.
C13_PartitionOrder ==
  \A p \in Participants :
    LET log == PartLog(p)
    IN /\ \A i \in CallsOf(log, "communicate") : \A j \in CallsOf(log, "communicate") :
            i < j => NameRank[log[i][2]] < NameRank[log[j][2]]
       /\ \A i \in CallsOf(log, "compute") : \A j \in CallsOf(log, "compute") :
            i < j =>
              \/ provideMesh(p, log[i][2]) /\ ~provideMesh(p, log[j][2])
              \/ /\ provideMesh(p, log[i][2]) = provideMesh(p, log[j][2])
                 /\ NameRank[log[i][2]] < NameRank[log[j][2]]

\* C13 witness: a participant that receives M1 and M3 and provides M2, listed
\* in another order by its configuration, has returned: it has computed M2
\* before M1.
C13_Witness ==
  \E p \in Participants :
    /\ part.proc[p].pc = "done"
    /\ cfg.use[p] = [M1 |-> "receive", M2 |-> "provide", M3 |-> "receive"]
    /\ part.proc[p].contexts = <<"M3", "M1", "M2">>

----------------------------------------------------------------------------
(* SpecMapping: the mappings, the data contexts and the data actions of one *)
(* session. The coupling scheme is opaque here: what it reports (data will  *)
(* be exchanged, has been exchanged, the time window is complete) is an     *)
(* input of the call. A mapping object is computed by computeMapping() and  *)
(* no longer so after clear(). A data context and a mesh context each hold  *)
(* a copy of the mapping context, with a hasMappedData flag of its own.     *)

MappingIDs == {"W1", "W2", "R1", "R2"}

\* writeMappingContexts() and readMappingContexts() of the participant.
writeMappingContexts ==
  << [mapping |-> "W1", timing |-> INITIAL], [mapping |-> "W2", timing |-> ON_ADVANCE] >>
readMappingContexts ==
  << [mapping |-> "R1", timing |-> INITIAL], [mapping |-> "R2", timing |-> ON_ADVANCE] >>

TimingOf(m) == IF m \in {"W1", "R1"} THEN INITIAL ELSE ON_ADVANCE

\* writeDataContexts() and readDataContexts(): the last one of each has no
\* mapping, its toData is its fromData.
writeDataContexts ==
  << [id |-> "wd1", mesh |-> 0, mapping |-> "W1"],
     [id |-> "wd2", mesh |-> 1, mapping |-> "W2"],
     [id |-> "wd3", mesh |-> 2, mapping |-> "none"] >>
readDataContexts ==
  << [id |-> "rd1", mesh |-> 0, mapping |-> "R1"],
     [id |-> "rd2", mesh |-> 1, mapping |-> "R2"],
     [id |-> "rd3", mesh |-> 2, mapping |-> "none"] >>

WriteIDs == {"wd1", "wd2", "wd3"}
ReadIDs == {"rd1", "rd2", "rd3"}

\* fromMappingContext and toMappingContext of the mesh contexts.
fromMappingOf(meshID) == IF meshID = 0 THEN "W1" ELSE IF meshID = 1 THEN "W2" ELSE "none"
toMappingOf(meshID) == IF meshID = 0 THEN "R1" ELSE IF meshID = 1 THEN "R2" ELSE "none"

\* Action::Timing, and the actions of the participant: one of each timing.
ALWAYS_PRIOR == "ALWAYS_PRIOR"
ALWAYS_POST == "ALWAYS_POST"
ON_EXCHANGE_PRIOR == "ON_EXCHANGE_PRIOR"
ON_EXCHANGE_POST == "ON_EXCHANGE_POST"
ON_TIMESTEP_COMPLETE_POST == "ON_TIMESTEP_COMPLETE_POST"
actions ==
  << ALWAYS_PRIOR, ALWAYS_POST, ON_EXCHANGE_PRIOR, ON_EXCHANGE_POST,
     ON_TIMESTEP_COMPLETE_POST >>

\* What the scheme reports in a call: willDataBeExchanged(),
\* hasDataBeenExchanged() and isCouplingTimestepComplete().
Reported(willExchange, exchanged, complete) ==
  [willExchange |-> willExchange, exchanged |-> exchanged, complete |-> complete]

\* A counter that stops at MaxCount.
Count(n) == IF n < MaxCount THEN n + 1 ELSE n

DispInit ==
  [ initialized  |-> FALSE,                           \* the scheme's isInitialized()
    timeWindow   |-> 1,
    computed     |-> [m \in MappingIDs |-> FALSE],    \* hasComputedMapping()
    computeCalls |-> [m \in MappingIDs |-> 0],
    cleared      |-> [m \in MappingIDs |-> FALSE], \* clear() has been called
    listFlag     |-> [m \in MappingIDs |-> FALSE],    \* hasMappedData of the list's contexts
    meshFlag     |-> [m \in MappingIDs |-> FALSE],    \* hasMappedData of the mesh contexts' copies
    dataFlag     |-> [d \in WriteIDs \cup ReadIDs |-> FALSE],  \* of the data contexts' copies
    fromValues   |-> [d \in WriteIDs |-> 0],          \* 0: all zeros, 1: not
    toValues     |-> [d \in {"wd1", "wd2"} |-> 0],
    mapsInWindow |-> [d \in ReadIDs |-> 0],       \* map() calls per read data context
    mappedUncomputed |-> FALSE,                       \* map() on a mapping not computed
    scheme |-> Reported(FALSE, FALSE, FALSE),         \* what the scheme reported in the call
    op |-> "construct", arg |-> -1, result |-> "ok", log |-> << >> ]

DLog(d, what, on) == [d EXCEPT !.log = Append(@, <<what, on>>)]

\* mapping->computeMapping(), mapping->clear() and mapping->map().
computeMapping(d, m) ==
  [DLog(d, "computeMapping", m) EXCEPT !.computed[m] = TRUE,
                                       !.computeCalls[m] = Count(@)]

clearMapping(d, m) ==
  [DLog(d, "clear", m) EXCEPT !.computed[m] = FALSE, !.cleared[m] = TRUE]

\* toData->values() = Zero, then mapping->map(inDataID, outDataID), for a
\* data context with a mapping.
zeroAndMap(d, dc) ==
  LET d1 == DLog(DLog(d, "zero", dc.id), "map", dc.id)
      d2 == [d1 EXCEPT !.mappedUncomputed = @ \/ ~d.computed[dc.mapping]]
  IN IF dc.id \in WriteIDs
       THEN [d2 EXCEPT !.toValues[dc.id] = d.fromValues[dc.id]]
       ELSE [d2 EXCEPT !.mapsInWindow[dc.id] = Count(@)]

\* First loop of the dispatch: compute the mappings not yet computed.
RECURSIVE computeMappings(_, _)
computeMappings(d, contexts) ==
  IF contexts = << >> THEN d
  ELSE LET context == Head(contexts)
           rightTime == context.timing = ON_ADVANCE \/ context.timing = INITIAL
           hasComputed == d.computed[context.mapping]
       IN computeMappings(
            IF rightTime /\ ~hasComputed THEN computeMapping(d, context.mapping) ELSE d,
            Tail(contexts))

\* Mutant: the data context's flag is not looked at and the target not zeroed.
RECURSIVE mapDataContexts_noZero(_, _)
mapDataContexts_noZero(d, contexts) ==
  IF contexts = << >> THEN d
  ELSE mapDataContexts_noZero(
         IF Head(contexts).mapping # "none" THEN DLog(d, "map", Head(contexts).id) ELSE d,
         Tail(contexts))

\* Second loop of the dispatch: map the data.
RECURSIVE mapDataContexts(_, _)
mapDataContexts(d, contexts) ==
  IF contexts = << >> THEN d
  ELSE LET context == Head(contexts)
           hasMapping == context.mapping # "none"
           rightTime == hasMapping =>
                          (TimingOf(context.mapping) = ON_ADVANCE
                             \/ TimingOf(context.mapping) = INITIAL)
           hasMapped == d.dataFlag[context.id]
       IN mapDataContexts(
            IF hasMapping /\ rightTime /\ ~hasMapped THEN zeroAndMap(d, context) ELSE d,
            Tail(contexts))

\* Mutant: every mapping is cleared, whatever its timing.
RECURSIVE clearMappings_all(_, _)
clearMappings_all(d, contexts) ==
  IF contexts = << >> THEN d
  ELSE clearMappings_all(clearMapping(d, Head(contexts).mapping), Tail(contexts))

\* Third loop of the dispatch: clear the mappings that are not stationary.
RECURSIVE clearMappings(_, _)
clearMappings(d, contexts) ==
  IF contexts = << >> THEN d
  ELSE LET context == Head(contexts)
           isStationary == context.timing = INITIAL
           d1 == IF ~isStationary THEN clearMapping(d, context.mapping) ELSE d
       IN clearMappings([d1 EXCEPT !.listFlag[context.mapping] = FALSE], Tail(contexts))

\* mapWrittenData() and mapReadData().
dispatchWrittenData(d) ==
  clearMappings(
    mapDataContexts(
      computeMappings(DLog(d, "mapWrittenData", ""), writeMappingContexts),
      writeDataContexts),
    writeMappingContexts)

dispatchReadData(d) ==
  clearMappings(
    mapDataContexts(
      computeMappings(DLog(d, "mapReadData", ""), readMappingContexts),
      readDataContexts),
    readMappingContexts)

\* Mutant: every action is performed, whatever its timing.
RECURSIVE performActions_all(_, _, _)
performActions_all(d, timings, as) ==
  IF as = << >> THEN d
  ELSE performActions_all(DLog(d, "performAction", Head(as)), timings, Tail(as))

\* performDataActions(): the actions whose timing is in timings, in the order
\* of actions().
RECURSIVE performActions(_, _, _)
performActions(d, timings, as) ==
  IF as = << >> THEN d
  ELSE performActions(
         IF Head(as) \in timings THEN DLog(d, "performAction", Head(as)) ELSE d,
         timings, Tail(as))

\* Mutant: the mapped target data are left as they are.
resetWrittenData_sourceOnly(d) ==
  [d EXCEPT !.fromValues = [w \in WriteIDs |-> 0]]

resetWrittenData(d) ==
  [d EXCEPT !.fromValues = [w \in WriteIDs |-> 0],
            !.toValues = [w \in DOMAIN d.toValues |-> 0]]

DBegin(d, op, arg) ==
  [d EXCEPT !.op = op, !.arg = arg, !.result = "ok", !.log = << >>,
            !.scheme = Reported(FALSE, FALSE, FALSE)]

DFail(d) == [d EXCEPT !.result = "error"]

\* initialize(), as far as the mappings and the actions go.
initializeMappings(d, exchanged) ==
  LET d0 == DBegin(d, "initialize", -1)
      d1 == [DLog(d0, "scheme.initialize", "") EXCEPT
               !.initialized = TRUE, !.scheme = Reported(FALSE, exchanged, FALSE)]
      timings == {ALWAYS_POST} \cup (IF exchanged THEN {ON_EXCHANGE_POST} ELSE {})
      d2 == IF exchanged THEN dispatchReadData(d1) ELSE d1
  IN performActions(d2, timings, actions)

initializeData(d, exchanged) ==
  LET d0 == DBegin(d, "initializeData", -1)
  IN IF ~d0.initialized THEN DFail(d0)
     ELSE
       LET d1 == [DLog(dispatchWrittenData(d0), "scheme.initializeData", "") EXCEPT
                    !.scheme = Reported(FALSE, exchanged, FALSE)]
           timings == IF exchanged THEN {ON_EXCHANGE_POST} ELSE {}
           d2 == IF exchanged THEN dispatchReadData(d1) ELSE d1
           d3 == performActions(d2, timings, actions)
           written == \/ \E w \in WriteIDs : d3.fromValues[w] # 0
                      \/ \E w \in DOMAIN d3.toValues : d3.toValues[w] # 0
       IN DLog(resetWrittenData(d3), "resetWrittenData",
               IF written THEN "values" ELSE "zeros")

\* advance(), as far as the mappings and the actions go; the scheme reports
\* willExchange before and exchanged and complete after its advance().
advanceMappings(d, willExchange, exchanged, complete) ==
  LET d0 == DBegin(d, "advance", -1)
  IN IF ~d0.initialized \/ d0.timeWindow > MaxMappingWindows THEN DFail(d0)
     ELSE
       LET d1 == dispatchWrittenData(
                   [DLog(d0, "scheme.addComputedTime", "") EXCEPT
                      !.scheme = Reported(willExchange, exchanged, complete)])
           prior == {ALWAYS_PRIOR} \cup (IF willExchange THEN {ON_EXCHANGE_PRIOR} ELSE {})
           d2 == DLog(performActions(d1, prior, actions), "scheme.advance", "")
           post == {ALWAYS_POST}
                     \cup (IF exchanged THEN {ON_EXCHANGE_POST} ELSE {})
                     \cup (IF complete THEN {ON_TIMESTEP_COMPLETE_POST} ELSE {})
           d3 == performActions(d2, post, actions)
           d4 == IF exchanged THEN dispatchReadData(d3) ELSE d3
       IN IF complete
            THEN [d4 EXCEPT !.timeWindow = @ + 1,
                            !.mapsInWindow = [r \in ReadIDs |-> 0]]
            ELSE d4

\* The loop of mapWriteDataFrom() and mapReadDataTo() over the data contexts
\* of the mesh.
RECURSIVE mapContextsOfMesh(_, _, _)
mapContextsOfMesh(d, contexts, meshID) ==
  IF contexts = << >> THEN d
  ELSE mapContextsOfMesh(
         IF Head(contexts).mesh = meshID THEN zeroAndMap(d, Head(contexts)) ELSE d,
         Tail(contexts), meshID)

explicitMapping(d, m, contexts, meshID) ==
  IF m = "none" THEN DFail(d)
  ELSE
    LET d1 == IF ~d.computed[m] THEN computeMapping(d, m) ELSE d
    IN [mapContextsOfMesh(d1, contexts, meshID) EXCEPT !.meshFlag[m] = TRUE]

mapWriteDataFrom(d, fromMeshID) ==
  explicitMapping(DBegin(d, "mapWriteDataFrom", fromMeshID),
                  fromMappingOf(fromMeshID), writeDataContexts, fromMeshID)

mapReadDataTo(d, toMeshID) ==
  explicitMapping(DBegin(d, "mapReadDataTo", toMeshID),
                  toMappingOf(toMeshID), readDataContexts, toMeshID)

\* writeScalarData() and the like, for every write data context: the solver
\* writes values that are not zero.
writeData(d) ==
  [DBegin(d, "writeData", -1) EXCEPT !.fromValues = [w \in WriteIDs |-> 1]]

MapInit ==
  /\ cfg = [m \in MappingIDs |-> TimingOf(m)]
  /\ disp = DispInit
  /\ sess = SessionInit /\ hist = HistInit /\ ranks = Idle /\ syncCh = Idle
  /\ fin = Idle /\ m2nCh = Idle /\ part = Idle /\ cpl = Idle
  /\ iter = Idle /\ conf = Idle /\ data = Idle /\ geo = Idle

MapFrame == UNCHANGED <<cfg, sess, hist, ranks, syncCh, fin, m2nCh, part, cpl, iter, conf, data, geo>>

MapInitialize ==
  /\ MapFrame
  /\ ~disp.initialized
  /\ \E x \in BOOLEAN : disp' = initializeMappings(disp, x)

MapInitializeData ==
  /\ MapFrame
  /\ \E x \in BOOLEAN : disp' = initializeData(disp, x)

MapAdvance ==
  /\ MapFrame
  /\ \E w \in BOOLEAN, x \in BOOLEAN, c \in BOOLEAN :
       disp' = advanceMappings(disp, w, x, c)

MapWriteDataFrom ==
  /\ MapFrame
  /\ \E meshID \in {0, 1, 2} : disp' = mapWriteDataFrom(disp, meshID)

MapReadDataTo ==
  /\ MapFrame
  /\ \E meshID \in {0, 1, 2} : disp' = mapReadDataTo(disp, meshID)

MapWriteData ==
  /\ MapFrame
  /\ disp' = writeData(disp)

MapNext ==
  \/ MapInitialize
  \/ MapInitializeData
  \/ MapAdvance
  \/ MapWriteDataFrom
  \/ MapReadDataTo
  \/ MapWriteData

SpecMapping == MapInit /\ [][MapNext]_vars

----------------------------------------------------------------------------
(* Claims about the mapping dispatch and the data actions (checked under   *)
(* SpecMapping).                                                           *)

\* The positions of a log with the entry <<what, on>>.
Positions(log, what, on) == {i \in 1..Len(log) : log[i] = <<what, on>>}

Has(log, what, on) == Positions(log, what, on) # {}

\* C14: whatever calls are made, a mapping with timing INITIAL has never got
\* a clear() and has got at most one computeMapping().
C14_InitialMappings ==
  \A m \in MappingIDs :
    TimingOf(m) = INITIAL => (~disp.cleared[m] /\ disp.computeCalls[m] <= 1)

\* C14 witness: both INITIAL mappings are computed, one of them first by an
\* explicit mapping call, and an advance() of the second time window has
\* dispatched both sides again.
C14_Witness ==
  /\ disp.op = "advance" /\ disp.result = "ok" /\ disp.timeWindow > 2
  /\ disp.scheme.exchanged
  /\ disp.computeCalls["W1"] = 1 /\ disp.computeCalls["R1"] = 1
  /\ disp.meshFlag["W1"]
  /\ disp.cleared["W2"] /\ disp.cleared["R2"]

\* C15 as stated: when initializeData() has applied the read mapping to a
\* read data context, the advance() that follows does not call map() on that
\* data context again.
C15_AsStated ==
  [][ (disp.op = "initializeData" /\ disp'.op = "advance")
      => \A r \in ReadIDs :
           Has(disp.log, "map", r) => ~Has(disp'.log, "map", r) ]_vars

\* The three phases of one dispatch, read off the calls logged by an API
\* call: before is the state the call started in, after the state it left.
ThreePhases(before, after, marker, mappings, contexts) ==
  LET log == after.log
      ids == {mappings[i].mapping : i \in 1..Len(mappings)}
      dcs == {contexts[i] : i \in 1..Len(contexts)}
      computes == UNION {Positions(log, "computeMapping", m) : m \in ids}
      maps == UNION {Positions(log, "map", dc.id) \cup Positions(log, "zero", dc.id) : dc \in dcs}
      clears == UNION {Positions(log, "clear", m) : m \in ids}
  IN IF ~Has(log, marker, "")
       THEN computes \cup maps \cup clears = {}
       ELSE
         /\ Cardinality(Positions(log, marker, "")) = 1
         /\ \A m \in ids :
              /\ Cardinality(Positions(log, "computeMapping", m))
                   = IF before.computed[m] THEN 0 ELSE 1
              /\ Cardinality(Positions(log, "clear", m))
                   = IF TimingOf(m) = INITIAL THEN 0 ELSE 1
         /\ \A dc \in dcs :
              LET expected == IF dc.mapping # "none" /\ ~before.dataFlag[dc.id] THEN 1 ELSE 0
              IN /\ Cardinality(Positions(log, "map", dc.id)) = expected
                 /\ Cardinality(Positions(log, "zero", dc.id)) = expected
                 /\ \A i \in Positions(log, "map", dc.id) :
                      i > 1 /\ log[i - 1] = <<"zero", dc.id>>
         /\ \A i \in Positions(log, marker, ""), j \in computes \cup maps \cup clears : i < j
         /\ \A i \in computes, j \in maps \cup clears : i < j
         /\ \A i \in maps, j \in clears : i < j

\* C16: every dispatch made by initialize(), initializeData() or advance()
\* runs three phases in this order: computeMapping() on exactly the mappings
\* of its side that are not computed, then map() on exactly the data contexts
\* that have a mapping and whose hasMappedData is false, each directly after
\* its target was set to zero, then clear() on exactly the mappings that are
\* not INITIAL; and map() is never called on a mapping that is not computed.
C16_ThreePhases ==
  [][ (disp'.op \in {"initialize", "initializeData", "advance"} /\ disp' # disp)
      => /\ ThreePhases(disp, disp', "mapWrittenData", writeMappingContexts, writeDataContexts)
         /\ ThreePhases(disp, disp', "mapReadData", readMappingContexts, readDataContexts)
         /\ ~disp'.mappedUncomputed ]_vars

\* C16 witness: an advance() that dispatched both sides when the INITIAL
\* mappings were computed already: it computed and cleared the ON_ADVANCE
\* mappings only and mapped the data of both.
C16_Witness ==
  /\ disp.op = "advance" /\ disp.result = "ok"
  /\ Has(disp.log, "mapWrittenData", "") /\ Has(disp.log, "mapReadData", "")
  /\ ~Has(disp.log, "computeMapping", "W1") /\ Has(disp.log, "computeMapping", "W2")
  /\ ~Has(disp.log, "computeMapping", "R1") /\ Has(disp.log, "computeMapping", "R2")
  /\ Has(disp.log, "map", "wd1") /\ Has(disp.log, "map", "rd2")
  /\ Has(disp.log, "clear", "W2") /\ ~Has(disp.log, "clear", "W1")

\* How often an action with this timing was performed before (TRUE) or after
\* (FALSE) the scheme's advance().
Performed(log, timing, before) ==
  Cardinality({i \in Positions(log, "performAction", timing) :
                 \A j \in Positions(log, "scheme.advance", "") :
                   IF before THEN i < j ELSE i > j})

\* C17: in every advance() an action is performed before the scheme's
\* advance() exactly if its timing is ALWAYS_PRIOR, or ON_EXCHANGE_PRIOR and
\* data will be exchanged; after it exactly if its timing is ALWAYS_POST, or
\* ON_EXCHANGE_POST and data have been exchanged, or
\* ON_TIMESTEP_COMPLETE_POST and the time window is complete; and no action
\* is performed twice in one call.
C17_ActionTimings ==
  (disp.op = "advance" /\ disp.result = "ok") =>
    /\ Cardinality(Positions(disp.log, "scheme.advance", "")) = 1
    /\ \A i \in 1..Len(actions) :
         LET a == actions[i]
             prior == \/ a = ALWAYS_PRIOR
                      \/ a = ON_EXCHANGE_PRIOR /\ disp.scheme.willExchange
             post == \/ a = ALWAYS_POST
                     \/ a = ON_EXCHANGE_POST /\ disp.scheme.exchanged
                     \/ a = ON_TIMESTEP_COMPLETE_POST /\ disp.scheme.complete
         IN /\ Performed(disp.log, a, TRUE) = (IF prior THEN 1 ELSE 0)
            /\ Performed(disp.log, a, FALSE) = (IF post THEN 1 ELSE 0)
            /\ Cardinality(Positions(disp.log, "performAction", a)) <= 1

\* C17 witness: an advance() in which data will be exchanged but were not,
\* and that completed the time window: the ON_EXCHANGE_PRIOR action ran, the
\* ON_EXCHANGE_POST action did not, the ON_TIMESTEP_COMPLETE_POST one did.
C17_Witness ==
  /\ disp.op = "advance" /\ disp.result = "ok"
  /\ disp.scheme = Reported(TRUE, FALSE, TRUE)
  /\ Has(disp.log, "performAction", ON_EXCHANGE_PRIOR)
  /\ ~Has(disp.log, "performAction", ON_EXCHANGE_POST)
  /\ Has(disp.log, "performAction", ON_TIMESTEP_COMPLETE_POST)

\* C18: initializeData() fails, doing nothing, if initialize() has not been
\* called; otherwise it runs the write dispatch, then the scheme's
\* initializeData(), then the read dispatch exactly if data have been
\* exchanged, and on return the source values and the mapped target values
\* of every write data context are all zero.
C18_InitializeData ==
  disp.op = "initializeData" =>
    IF ~disp.initialized
      THEN disp.result = "error" /\ disp.log = << >>
      ELSE
        /\ disp.result = "ok"
        /\ Cardinality(Positions(disp.log, "mapWrittenData", "")) = 1
        /\ Cardinality(Positions(disp.log, "scheme.initializeData", "")) = 1
        /\ Cardinality(Positions(disp.log, "mapReadData", ""))
             = IF disp.scheme.exchanged THEN 1 ELSE 0
        /\ \A j \in Positions(disp.log, "scheme.initializeData", "") :
             /\ \A i \in Positions(disp.log, "mapWrittenData", "") : i < j
             /\ \A w \in WriteIDs : \A i \in Positions(disp.log, "map", w) : i < j
             /\ \A m \in {"W1", "W2"} :
                  \A i \in Positions(disp.log, "computeMapping", m)
                             \cup Positions(disp.log, "clear", m) : i < j
             /\ \A k \in Positions(disp.log, "mapReadData", "") : j < k
        /\ \A w \in WriteIDs : disp.fromValues[w] = 0
        /\ \A w \in DOMAIN disp.toValues : disp.toValues[w] = 0

\* C18 witness: initializeData() after initialize() and after the solver wrote
\* data: the data were mapped to their targets, exchanged, the read side was
\* dispatched, and the buffers, which held values, are zero on return.
C18_Witness ==
  /\ disp.op = "initializeData" /\ disp.result = "ok" /\ disp.scheme.exchanged
  /\ Has(disp.log, "map", "wd1") /\ Has(disp.log, "mapReadData", "")
  /\ Has(disp.log, "resetWrittenData", "values")
  /\ \A w \in WriteIDs : disp.fromValues[w] = 0

----------------------------------------------------------------------------
(* SpecScheme: two participants coupled by a serial explicit scheme with a *)
(* fixed time window size, each in its own process running its time loop.  *)
(* A process is inside advance() while it waits for the other one; the     *)
(* channel between them either buffers what is sent or makes the sender    *)
(* wait until it is received.                                              *)

Schemes == {"first", "second"}

OtherScheme(p) == IF p = "first" THEN "second" ELSE "first"

doesFirstStep(p) == p = "first"

\* Mutant: the first participant receives before it sends, like the second.
explicitAdvanceSteps_receiveFirst(p) == <<"receive", "send">>

\* The exchange of advance() at the end of a time window.
explicitAdvanceSteps(p) ==
  IF doesFirstStep(p) THEN <<"send", "receive">> ELSE <<"receive", "send">>

\* Mutant: the time window counts as complete when the remainder is within
\* the tolerance of zero.
windowComplete_withinOne(cs) ==
  getThisTimestepRemainder(cs) <= NUMERICAL_ZERO_DIFFERENCE

\* The time window is complete: nothing remains of it.
windowComplete(cs) == getThisTimestepRemainder(cs) <= 0

\* advance() of the scheme when the time window is, or is not, complete.
completeWindow(cs) ==
  [cs EXCEPT !.timeWindow = @ + 1, !.computedPart = 0,
             !.complete = TRUE, !.exchanged = TRUE]

continueWindow(cs) == [cs EXCEPT !.complete = FALSE, !.exchanged = FALSE]

SchemeProcInit ==
  [ pc |-> "idle", k |-> 0,
    cs |-> scheme_initialize(scheme_construct, 0, 1, FALSE),
    calls |-> 0,           \* advance() calls of the current time window
    acc |-> 0,             \* the timestep lengths given in them, added up
    start |-> 0,           \* the scheme's time when the time window began
    ops |-> << >>,         \* what the last advance() sent and received
    windows |-> << >> ]    \* the time windows completed

CplInit ==
  /\ cfg \in [rendezvous : BOOLEAN]
  /\ cpl = [ proc |-> [p \in Schemes |-> SchemeProcInit],
             ch |-> [p \in Schemes |-> << >>] ]   \* ch[p]: sent by p, in flight
  /\ sess = SessionInit /\ hist = HistInit /\ ranks = Idle /\ syncCh = Idle
  /\ fin = Idle /\ m2nCh = Idle /\ part = Idle /\ disp = Idle
  /\ iter = Idle /\ conf = Idle /\ data = Idle /\ geo = Idle

CplFrame(p) ==
  /\ p \in Schemes
  /\ UNCHANGED <<cfg, sess, hist, ranks, syncCh, fin, m2nCh, part, disp, iter, conf, data, geo>>

\* The process is at step k of the exchange; after the last step the scheme
\* completes the time window and advance() returns.
AfterStep(pr, p) ==
  IF pr.k < Len(explicitAdvanceSteps(p))
    THEN [pr EXCEPT !.k = @ + 1, !.pc = explicitAdvanceSteps(p)[pr.k + 1]]
    ELSE [pr EXCEPT !.k = 0, !.pc = "idle", !.cs = completeWindow(@),
                    !.windows = Append(@, pr.cs.timeWindow)]

\* advance(dt) is called: the computed time is added; if the time window is
\* complete the exchange begins, else advance() returns.
CplAdvance(p) ==
  /\ CplFrame(p)
  /\ cpl.proc[p].pc = "idle"
  /\ isCouplingOngoing(cpl.proc[p].cs)
  /\ \E dt \in 1..getThisTimestepRemainder(cpl.proc[p].cs) :
       LET pr == cpl.proc[p]
           fresh == pr.calls = 0 \/ pr.cs.complete
           p1 == [pr EXCEPT !.cs = scheme_addComputedTime(@, dt),
                            !.calls = IF fresh THEN 1 ELSE @ + 1,
                            !.acc = IF fresh THEN dt ELSE @ + dt,
                            !.start = IF fresh THEN pr.cs.time ELSE @,
                            !.ops = << >>]
       IN cpl' = [cpl EXCEPT !.proc[p] =
                    IF windowComplete(p1.cs) THEN AfterStep(p1, p)
                    ELSE [p1 EXCEPT !.cs = continueWindow(@)]]

\* sendData(): the data of the time window are put on the channel.
CplSend(p) ==
  /\ CplFrame(p)
  /\ cpl.proc[p].pc = "send"
  /\ LET pr == [cpl.proc[p] EXCEPT !.ops = Append(@, <<"send", cpl.proc[p].cs.timeWindow>>)]
     IN cpl' = [cpl EXCEPT
                  !.ch[p] = Append(@, pr.cs.timeWindow),
                  !.proc[p] = IF cfg.rendezvous THEN [pr EXCEPT !.pc = "sending"]
                              ELSE AfterStep(pr, p)]

\* A send that waits for its receive returns when the data were taken.
CplSendDone(p) ==
  /\ CplFrame(p)
  /\ cpl.proc[p].pc = "sending"
  /\ cpl.ch[p] = << >>
  /\ cpl' = [cpl EXCEPT !.proc[p] = AfterStep(cpl.proc[p], p)]

\* receiveData(): blocks until the other participant's data are there.
CplReceive(p) ==
  /\ CplFrame(p)
  /\ cpl.proc[p].pc = "receive"
  /\ cpl.ch[OtherScheme(p)] # << >>
  /\ LET pr == [cpl.proc[p] EXCEPT
                  !.ops = Append(@, <<"receive", Head(cpl.ch[OtherScheme(p)])>>)]
     IN cpl' = [cpl EXCEPT !.ch[OtherScheme(p)] = Tail(@),
                           !.proc[p] = AfterStep(pr, p)]

\* The time loop ends when the coupling is no longer ongoing.
CplReturn(p) ==
  /\ CplFrame(p)
  /\ cpl.proc[p].pc = "idle"
  /\ ~isCouplingOngoing(cpl.proc[p].cs)
  /\ cpl' = [cpl EXCEPT !.proc[p].pc = "done"]

CplNext ==
  \E p \in {"first", "second"} :
    \/ CplAdvance(p)
    \/ CplSend(p)
    \/ CplSendDone(p)
    \/ CplReceive(p)
    \/ CplReturn(p)

SpecScheme == CplInit /\ [][CplNext]_vars

----------------------------------------------------------------------------
(* Claims about the coupling scheme (checked under SpecScheme).            *)

\* advance() has returned to the solver at least once.
AdvanceReturned(pr) == pr.pc \in {"idle", "done"} /\ pr.calls > 0

IsPrefix(s, t) == Len(s) <= Len(t) /\ \A i \in 1..Len(s) : s[i] = t[i]

\* The time window the process exchanges, or has last exchanged, data for.
ExchangedWindow(pr) ==
  IF pr.pc \in {"idle", "done"} THEN pr.cs.timeWindow - 1 ELSE pr.cs.timeWindow

CplQuiet == ~ENABLED CplNext

\* C20: the first participant's advance() sends and then receives, the
\* second's receives and then sends, each receive getting the data of the
\* receiver's own time window; the two participants never stop short of the
\* end (no deadlock), are never more than one time window apart, and both
\* complete the time windows 1, 2, ... up to the limit.
C20_SerialExchange ==
  /\ \A p \in Schemes :
       LET pr == cpl.proc[p]
           w == ExchangedWindow(pr)
       IN IsPrefix(pr.ops, IF p = "first" THEN << <<"send", w>>, <<"receive", w>> >>
                           ELSE << <<"receive", w>>, <<"send", w>> >>)
  /\ \/ IsPrefix(cpl.proc["first"].windows, cpl.proc["second"].windows)
     \/ IsPrefix(cpl.proc["second"].windows, cpl.proc["first"].windows)
  /\ Len(cpl.proc["first"].windows) - Len(cpl.proc["second"].windows) \in {-1, 0, 1}
  /\ CplQuiet =>
       /\ \A p \in Schemes :
            /\ cpl.proc[p].pc = "done" /\ cpl.ch[p] = << >>
            /\ cpl.proc[p].windows = [i \in 1..MaxTimeWindows |-> i]

\* C20 witness: both time loops ended after the last time window, over a
\* channel whose sends wait for their receives, the first participant having
\* sent and then received in its last advance() and the second the reverse.
C20_Witness ==
  /\ cfg.rendezvous
  /\ \A p \in Schemes : cpl.proc[p].pc = "done"
  /\ cpl.proc["first"].ops = << <<"send", MaxTimeWindows>>, <<"receive", MaxTimeWindows>> >>
  /\ cpl.proc["second"].ops = << <<"receive", MaxTimeWindows>>, <<"send", MaxTimeWindows>> >>

----------------------------------------------------------------------------
(* SpecImplicit: one participant of an implicit coupling scheme with a     *)
(* fixed time window size. At the end of a time window the convergence     *)
(* measures decide, and the solver is told by required actions to write or *)
(* to read its checkpoint.                                                 *)

WriteCheckpoint == "write-iteration-checkpoint"
ReadCheckpoint == "read-iteration-checkpoint"

ImplicitInit ==
  [ cs |-> scheme_initialize(scheme_construct, 0, 1, FALSE),
    iterations |-> 1,                  \* the iteration of the time window
    required |-> {WriteCheckpoint},    \* the actions required of the solver
    start |-> 0,                       \* the time at which the time window began
    last |-> "initialize",             \* how the last advance() ended
    solverTime |-> 0,                  \* the solver's own time
    checkpoint |-> 0,                  \* the solver's time in its checkpoint
    counted |-> << >> ]                \* the iterations each finished window took

\* Mutant: the limit of iterations is not looked at.
repeatsWindow_unlimited(st, converged) == ~converged

\* The window is repeated: not converged and iterations left.
repeatsWindow(st, converged) == ~converged /\ st.iterations < cfg.maxIterations

\* advance() of the implicit scheme, after addComputedTime(dt).
implicitAdvance(st, converged) ==
  IF ~windowComplete(st.cs)
    THEN [st EXCEPT !.cs = continueWindow(@), !.required = {}, !.last = "continue"]
  ELSE IF repeatsWindow(st, converged)
    THEN [st EXCEPT !.cs = [@ EXCEPT !.time = st.start, !.computedPart = 0,
                                     !.complete = FALSE, !.exchanged = TRUE],
                    !.iterations = @ + 1,
                    !.required = {ReadCheckpoint},
                    !.last = "repeat"]
  ELSE [st EXCEPT !.cs = completeWindow(@),
                  !.iterations = 1,
                  !.required = IF isCouplingOngoing(completeWindow(st.cs))
                                 THEN {WriteCheckpoint} ELSE {},
                  !.start = st.cs.time,
                  !.last = IF converged THEN "converged" ELSE "maxIterations",
                  !.counted = Append(@, st.iterations)]

ImplFrame ==
  UNCHANGED <<cfg, sess, hist, ranks, syncCh, fin, m2nCh, part, disp, cpl, conf, data, geo>>

ImplInit ==
  /\ cfg \in [maxIterations : 1..MaxIterations]
  /\ iter = ImplicitInit
  /\ sess = SessionInit /\ hist = HistInit /\ ranks = Idle /\ syncCh = Idle
  /\ fin = Idle /\ m2nCh = Idle /\ part = Idle /\ disp = Idle /\ cpl = Idle
  /\ conf = Idle /\ data = Idle /\ geo = Idle

\* advance(dt): the measures' verdict is read at the end of the time window.
ImplAdvance ==
  /\ ImplFrame
  /\ isCouplingOngoing(iter.cs) /\ iter.iterations <= cfg.maxIterations
  /\ \E dt \in 1..getThisTimestepRemainder(iter.cs), converged \in BOOLEAN :
       iter' = implicitAdvance([iter EXCEPT !.cs = scheme_addComputedTime(@, dt),
                                            !.solverTime = @ + dt],
                               converged)

\* The solver does what is required, writing or reading its checkpoint, and
\* calls fulfilledAction(name).
ImplFulfilledAction ==
  /\ ImplFrame
  /\ \E name \in {"write-iteration-checkpoint", "read-iteration-checkpoint"} :
       /\ name \in iter.required
       /\ iter' = [iter EXCEPT
                     !.required = @ \ {name},
                     !.checkpoint = IF name = WriteCheckpoint THEN iter.solverTime ELSE @,
                     !.solverTime = IF name = ReadCheckpoint THEN iter.checkpoint ELSE @]

ImplNext == ImplAdvance \/ ImplFulfilledAction

SpecImplicit == ImplInit /\ [][ImplNext]_vars

----------------------------------------------------------------------------
(* SpecConfigure: configure() of the session of participant "A", for the   *)
(* configurations a file can hold: the participants it names, whether "A"  *)
(* has a master, and for each mesh whether "A" uses, provides and receives *)
(* it. The build is a debug build (assertions compiled in) or not.         *)

ConfigMeshes == {"M1", "M2"}

MeshIdOf(name) == IF name = "M1" THEN 0 ELSE 1

ConfigureConfigurations ==
  [ participants : SUBSET {"A", "B"},          \* the participants of the file
    size : {1, 2}, rank : {0, 1},              \* _accessorCommunicatorSize, _accessorProcessRank
    useMaster : BOOLEAN,                       \* _accessor->useMaster()
    debug : BOOLEAN,
    used : SUBSET ConfigMeshes,                \* _accessor->usedMeshContexts()
    provideMesh : [ConfigMeshes -> BOOLEAN],
    receiveMeshFrom : [ConfigMeshes -> {"", "B"}] ]

ConfInit0 ==
  [ result |-> "none", log |-> << >>,
    accessor |-> FALSE,                          \* _accessor
    m2ns |-> {},                                 \* _m2ns: the remote names
    partition |-> [m \in ConfigMeshes |-> {}],   \* the partitions made for the mesh
    couplingScheme |-> FALSE,                    \* _couplingScheme
    meshIDs |-> {},                              \* _meshIDs
    meshLock |-> [m \in {} |-> FALSE] ]          \* _meshLock

CStep(c, what) == [c EXCEPT !.log = Append(@, what)]

CEnd(c, how) == [c EXCEPT !.result = how]

\* configureM2Ns(): one bound M2N per remote participant of the file that
\* the file connects "A" with.
configureM2Ns(c) ==
  [CStep(c, "configureM2Ns") EXCEPT !.m2ns = cfg.participants \ {"A"}]

\* Mutant: a partition is made without a look at the other flag.
partitionOf_unchecked(m) ==
  IF cfg.provideMesh[m] THEN "provided" ELSE "received"

\* configurePartitions(), for one mesh: the partition made, or "error".
partitionOf(m) ==
  IF cfg.provideMesh[m]
    THEN (IF cfg.receiveMeshFrom[m] = "" THEN "provided" ELSE "error")
    ELSE (IF cfg.receiveMeshFrom[m] # "" THEN "received" ELSE "error")

\* configurePartitions(): the used meshes in order; the first error ends it.
RECURSIVE configurePartitions(_, _)
configurePartitions(c, meshes) ==
  IF meshes = {} THEN c
  ELSE LET m == CHOOSE x \in meshes : \A y \in meshes : MeshIdOf(x) <= MeshIdOf(y)
       IN IF partitionOf(m) = "error" THEN CEnd(c, "error")
          ELSE configurePartitions([c EXCEPT !.partition[m] = @ \cup {partitionOf(m)}],
                                   meshes \ {m})

\* Mutant: a configuration that does not name the accessor goes on with no
\* accessor.
determineAccessingParticipant_lenient(c) ==
  [CStep(c, "determineAccessingParticipant") EXCEPT !.accessor = "A" \in cfg.participants]

\* determineAccessingParticipant(): the participant of the file with the
\* accessor's name, or an error.
determineAccessingParticipant(c) ==
  IF "A" \in cfg.participants
    THEN [CStep(c, "determineAccessingParticipant") EXCEPT !.accessor = TRUE]
    ELSE CEnd(CStep(c, "determineAccessingParticipant"), "error")

\* The end of configure(): the scheme, the mesh IDs, the lock and the
\* master-slave communication. ub is what a call through the communication
\* object makes of a participant that has no master configured.
configureTail(c, ub) ==
  LET c1 == [CStep(c, "getCouplingScheme") EXCEPT !.couplingScheme = TRUE]
      ids == {MeshIdOf(m) : m \in cfg.used}
      c2 == [CStep(c1, "meshIDs") EXCEPT !.meshIDs = ids]
      c3 == [CStep(c2, "meshLock.add") EXCEPT !.meshLock = addAllUnlocked(@, ids)]
  IN IF cfg.size > 1
       THEN (IF ~cfg.useMaster /\ ub = "crash"
               THEN CEnd(CStep(c3, "initializeMasterSlaveCommunication"), "crash")
               ELSE CEnd(CStep(c3, "initializeMasterSlaveCommunication"), "ok"))
       ELSE CEnd(c3, "ok")

\* configure(config).
configureSession(ub) ==
  LET c0 == [ConfInit0 EXCEPT !.log = <<"meshLock.clear">>]
      c1 == determineAccessingParticipant(c0)
  IN IF c1.result = "error" THEN c1
     ELSE IF cfg.debug /\ ~(cfg.size = 1 \/ cfg.useMaster) THEN CEnd(c1, "assert")
     ELSE IF cfg.size = 1 /\ cfg.useMaster THEN CEnd(c1, "error")
     ELSE
       LET c2 == configureM2Ns(CStep(c1, "MasterSlave.configure"))
       IN IF ~(Cardinality(cfg.participants) > 1) THEN CEnd(c2, "error")
          ELSE
            LET c3 == configurePartitions(CStep(c2, "configurePartitions"), cfg.used)
            IN IF c3.result = "error" THEN c3 ELSE configureTail(c3, ub)

ConfInit ==
  /\ cfg \in ConfigureConfigurations
  /\ cfg.rank < cfg.size
  /\ conf = ConfInit0
  /\ sess = SessionInit /\ hist = HistInit /\ ranks = Idle /\ syncCh = Idle
  /\ fin = Idle /\ m2nCh = Idle /\ part = Idle /\ disp = Idle /\ cpl = Idle
  /\ iter = Idle /\ data = Idle /\ geo = Idle

ConfConfigure ==
  /\ conf.result = "none"
  /\ \E ub \in {"crash", "survive"} : conf' = configureSession(ub)
  /\ UNCHANGED <<cfg, sess, hist, ranks, syncCh, fin, m2nCh, part, disp, cpl, iter, data, geo>>

SpecConfigure == ConfInit /\ [][ConfConfigure]_vars

----------------------------------------------------------------------------
(* Claims about configure() (checked under SpecConfigure).                 *)

Configured == conf.result # "none"

\* The mesh is configured as provided and received at once, or as neither.
BothOrNeither(m) == cfg.provideMesh[m] <=> cfg.receiveMeshFrom[m] # ""

\* C22: after a configure() that succeeded every used mesh has exactly one
\* partition, a provided one if and only if the participant provides the
\* mesh, a received one if and only if it receives it; and a configure() of
\* a used mesh that is both provided and received, or neither, does not
\* succeed: when it gets to the partitions it ends with an error.
C22_OnePartition ==
  Configured =>
    /\ conf.result = "ok" =>
         \A m \in cfg.used :
           /\ Cardinality(conf.partition[m]) = 1
           /\ conf.partition[m] = {"provided"} <=> cfg.provideMesh[m]
           /\ conf.partition[m] = {"received"} <=> cfg.receiveMeshFrom[m] # ""
    /\ (\E m \in cfg.used : BothOrNeither(m)) =>
         /\ conf.result # "ok"
         /\ (\E i \in 1..Len(conf.log) : conf.log[i] = "configurePartitions")
              => conf.result = "error"

\* C22 witness: configure() succeeded with one mesh provided and one received.
C22_Witness ==
  /\ conf.result = "ok" /\ cfg.used = ConfigMeshes
  /\ conf.partition["M1"] = {"provided"} /\ conf.partition["M2"] = {"received"}

\* C23: configure() of a configuration without participants, or without the
\* accessing participant, ends with an error, and then no M2N is bound, no
\* coupling scheme is constructed and no mesh ID is registered.
C23_UnknownAccessor ==
  (Configured /\ "A" \notin cfg.participants) =>
    /\ conf.result = "error"
    /\ conf.m2ns = {} /\ ~conf.couplingScheme /\ conf.meshIDs = {}
    /\ DOMAIN conf.meshLock = {}

\* C23 witness: configure() has failed on a configuration that names only
\* the other participant, whose meshes and M2N it would have set up.
C23_Witness ==
  /\ conf.result = "error" /\ cfg.participants = {"B"} /\ cfg.used = ConfigMeshes
  /\ ~BothOrNeither("M1") /\ ~BothOrNeither("M2") /\ cfg.size = 1 /\ ~cfg.useMaster

\* C24 as stated: configure() of a participant that runs on more than one
\* rank and has no master ends with an error, in a debug build and in a
\* build without assertions.
C24_AsStated ==
  (Configured /\ "A" \in cfg.participants /\ cfg.size > 1 /\ ~cfg.useMaster)
    => conf.result = "error"

----------------------------------------------------------------------------
(* A claim about the mesh lock between configure() and initialize()        *)
(* (checked under Spec).                                                   *)

\* C25: from the return of configure() until initialize() returns, the mesh
\* lock holds exactly the IDs of the meshes the participant uses and every
\* one of them is unlocked, whatever vertices are set and meshes reset in
\* between.
C25_UnlockedUntilInitialize ==
  (sess.configured /\ ~hist.initialized) =>
    /\ DOMAIN sess.meshLock = MeshIDs
    /\ \A m \in MeshIDs : ~MeshLock_check(sess.meshLock, m)

\* C25 witness: after configure() and before initialize() a mesh has been
\* given all its vertices.
C25_Witness ==
  /\ sess.configured /\ ~hist.initialized
  /\ sess.op = "setMeshVertex" /\ sess.result = "ok"
  /\ sess.vertexCount[1] = MaxVertices

----------------------------------------------------------------------------
(* SpecMesh: the vertices of one mesh of a configured session, before      *)
(* initialize(): the solver sets vertices and asks for their positions and *)
(* their IDs. Coordinates are counted in units of the numerical tolerance. *)

\* The positions a solver passes in: the first two are within the tolerance
\* of each other, the others are not.
Coords == {<<0, 0>>, <<1, 1>>, <<0, 3>>, <<3, 3>>}

\* math::equals on two positions (the overload for vectors): the lookup that
\* uses it matches a position with a vertex at exactly that position.
equalPositions(a, b) == \A i \in 1..Len(a) : a[i] = b[i]

SeqsUpTo(S, n) == UNION {[1..k -> S] : k \in 0..n}

GeoInit0 ==
  [ vertices |-> << >>,       \* mesh->vertices(): the coordinates, by position in it
    ids |-> << >>,            \* the ID createVertex() gave each of them
    op |-> "configure", arg |-> << >>, result |-> "ok", ret |-> << >> ]

\* Mutant: the IDs are counted from one.
nextVertexID_fromOne(g) == Len(g.vertices) + 1

\* The ID createVertex() gives the next vertex.
nextVertexID(g) == Len(g.vertices)

\* mesh->createVertex(position).getID() for the positions in turn.
RECURSIVE createVertices(_, _)
createVertices(g, positions) ==
  IF positions = << >> THEN g
  ELSE createVertices([g EXCEPT !.vertices = Append(@, Head(positions)),
                                !.ids = Append(@, nextVertexID(g)),
                                !.ret = Append(@, nextVertexID(g))],
                      Tail(positions))

GBegin(g, op, arg) == [g EXCEPT !.op = op, !.arg = arg, !.result = "ok", !.ret = << >>]

setVertices(g, op, positions) == createVertices(GBegin(g, op, positions), positions)

\* Mutant: the vertex is taken by the place of the ID in the call, not by the ID.
RECURSIVE getVertices_byPlace(_, _, _)
getVertices_byPlace(g, ids, ub) ==
  IF ids = << >> THEN g
  ELSE IF Len(g.ret) < Len(g.vertices)
    THEN getVertices_byPlace([g EXCEPT !.ret = Append(@, g.vertices[Len(g.ret) + 1])],
                             Tail(ids), ub)
  ELSE [g EXCEPT !.result = "crash"]

\* getMeshVertices(): the assertions on size and IDs are compiled in debug
\* builds only; without them an ID that is no index of vertices() reads
\* outside the container: the process dies or some position comes back.
RECURSIVE getVertices(_, _, _)
getVertices(g, ids, ub) ==
  IF ids = << >> THEN g
  ELSE LET id == Head(ids)
       IN IF id < Len(g.vertices)
            THEN getVertices([g EXCEPT !.ret = Append(@, g.vertices[id + 1])], Tail(ids), ub)
          ELSE IF cfg.debug THEN [g EXCEPT !.result = "assert"]
          ELSE IF ub.crash THEN [g EXCEPT !.result = "crash"]
          ELSE getVertices([g EXCEPT !.ret = Append(@, ub.position)], Tail(ids), ub)

getMeshVertices(g, ids, ub) ==
  LET g0 == GBegin(g, "getMeshVertices", ids)
  IN IF cfg.debug /\ ~(Len(ids) <= Len(g.vertices)) THEN [g0 EXCEPT !.result = "assert"]
     ELSE getVertices(g0, ids, ub)

\* Mutant: the last vertex that matches is taken.
RECURSIVE firstMatch_last(_, _, _)
firstMatch_last(vs, position, j) ==
  IF \E k \in 1..Len(vs) : equalPositions(position, vs[k])
    THEN (CHOOSE k \in 1..Len(vs) :
            /\ equalPositions(position, vs[k])
            /\ \A l \in 1..Len(vs) : equalPositions(position, vs[l]) => l <= k) - 1
    ELSE Len(vs)

\* The inner loop of getMeshVertexIDsFromPositions(): the first j from j on
\* whose vertex equals the position, or vertices().size().
RECURSIVE firstMatch(_, _, _)
firstMatch(vs, position, j) ==
  IF j >= Len(vs) THEN Len(vs)
  ELSE IF equalPositions(position, vs[j + 1]) THEN j
  ELSE firstMatch(vs, position, j + 1)

RECURSIVE getMeshVertexIDsFromPositions(_, _)
getMeshVertexIDsFromPositions(g, positions) ==
  IF positions = << >> THEN g
  ELSE LET j == firstMatch(g.vertices, Head(positions), 0)
       IN IF j = Len(g.vertices) THEN [g EXCEPT !.result = "error"]
          ELSE getMeshVertexIDsFromPositions([g EXCEPT !.ret = Append(@, j)],
                                             Tail(positions))

GeoInit ==
  /\ cfg \in [debug : BOOLEAN]
  /\ geo = GeoInit0
  /\ sess = SessionInit /\ hist = HistInit /\ ranks = Idle /\ syncCh = Idle
  /\ fin = Idle /\ m2nCh = Idle /\ part = Idle /\ disp = Idle /\ cpl = Idle
  /\ iter = Idle /\ conf = Idle /\ data = Idle

\* getMeshVertices() and getMeshVertexIDsFromPositions() are const and leave
\* the mesh as it was: what can be called after them, and with what outcome,
\* is what can be called after the last call that set vertices. Every call is
\* therefore taken from a state that such a call, or configure(), has left.
GeoFrame ==
  /\ geo.op \in {"configure", "setMeshVertex", "setMeshVertices"}
  /\ UNCHANGED <<cfg, sess, hist, ranks, syncCh, fin, m2nCh, part, disp, cpl, iter, conf, data>>

GeoSetMeshVertex ==
  /\ GeoFrame
  /\ Len(geo.vertices) < MaxVertices
  /\ \E position \in Coords : geo' = setVertices(geo, "setMeshVertex", <<position>>)

GeoSetMeshVertices ==
  /\ GeoFrame
  /\ \E positions \in SeqsUpTo(Coords, MaxVertices) :
       /\ Len(geo.vertices) + Len(positions) <= MaxVertices
       /\ geo' = setVertices(geo, "setMeshVertices", positions)

\* What a read outside vertices() may come to; it is made in a build without
\* assertions for an ID that is no index.
outsideReads(ids) ==
  IF ~cfg.debug /\ \E i \in 1..Len(ids) : ids[i] >= Len(geo.vertices)
    THEN [crash : BOOLEAN, position : Coords]
    ELSE {[crash |-> FALSE, position |-> <<0, 0>>]}

GeoGetMeshVertices ==
  /\ GeoFrame
  /\ \E ids \in SeqsUpTo(0..MaxVertices, MaxVertices) :
       \E ub \in outsideReads(ids) : geo' = getMeshVertices(geo, ids, ub)

GeoGetMeshVertexIDsFromPositions ==
  /\ GeoFrame
  /\ \E positions \in SeqsUpTo(Coords, MaxVertices) :
       geo' = getMeshVertexIDsFromPositions(
                GBegin(geo, "getMeshVertexIDsFromPositions", positions), positions)

GeoNext ==
  \/ GeoSetMeshVertex
  \/ GeoSetMeshVertices
  \/ GeoGetMeshVertices
  \/ GeoGetMeshVertexIDsFromPositions

SpecMesh == GeoInit /\ [][GeoNext]_vars

\* ---------------------------------------------------------------------------
\* Claims about the vertices of a mesh (checked under SpecMesh)
\* ---------------------------------------------------------------------------

\* The vertex an ID was returned for, by its place in vertices().
VertexOfID(g, id) == g.vertices[CHOOSE k \in 1..Len(g.ids) : g.ids[k] = id]

ReturnedIDs(g) == {g.ids[k] : k \in 1..Len(g.ids)}

\* C26: the IDs setMeshVertex() and setMeshVertices() return are 0, 1, ...,
\* N-1 in the order of the calls; no call changes the vertex an ID was
\* returned for; and getMeshVertices() on returned IDs gives back exactly the
\* coordinates that were passed in for them.
C26_IDStability ==
  [][ /\ IsPrefix(geo.vertices, geo'.vertices)
      /\ IsPrefix(geo.ids, geo'.ids)
      /\ \A k \in 1..Len(geo'.ids) : geo'.ids[k] = k - 1
      /\ geo'.op \in {"setMeshVertex", "setMeshVertices"} =>
           /\ geo'.result = "ok"
           /\ geo'.ret = [i \in 1..Len(geo'.arg) |-> Len(geo.vertices) + i - 1]
           /\ geo'.vertices = geo.vertices \o geo'.arg
           /\ \A i \in 1..Len(geo'.arg) : VertexOfID(geo', geo'.ret[i]) = geo'.arg[i]
      /\ ( /\ geo'.op = "getMeshVertices"
           /\ Len(geo'.arg) <= Len(geo.vertices)
           /\ \A i \in 1..Len(geo'.arg) : geo'.arg[i] \in ReturnedIDs(geo) ) =>
           /\ geo'.result = "ok"
           /\ geo'.ret = [i \in 1..Len(geo'.arg) |-> VertexOfID(geo, geo'.arg[i])]
    ]_vars

\* C26 witness: two vertices were set at different places and getMeshVertices()
\* was asked for them in the reverse order.
C26_Witness ==
  /\ geo.op = "getMeshVertices" /\ geo.result = "ok"
  /\ geo.vertices = << <<0, 3>>, <<1, 1>> >>
  /\ geo.arg = <<1, 0>>
  /\ geo.ret = << <<1, 1>>, <<0, 3>> >>

NoDuplicatePositions(g) ==
  \A k, l \in 1..Len(g.vertices) : g.vertices[k] = g.vertices[l] => k = l

\* The vertices of a mesh at a position, by index.
VerticesAt(g, position) == {j \in 0..(Len(g.vertices) - 1) : g.vertices[j + 1] = position}

Min(S) == CHOOSE x \in S : \A y \in S : x <= y

dimensions == 2

\* The value a solver passes: component dim of its v-th value.
valueFor(v, dim) == v + 10 * dim

ValInit0 ==
  [ vertexCount |-> 0,        \* mesh->vertices().size()
    values |-> << >>,         \* data->values()
    locked |-> FALSE,         \* the mesh lock, set by initialize()
    op |-> "none", arg |-> << >>, v |-> 0, result |-> "ok", ret |-> << >>,
    outside |-> FALSE ]       \* a position outside values() was read or written

ValBegin(d, op, arg) ==
  [d EXCEPT !.op = op, !.arg = arg, !.v = 0, !.result = "ok", !.ret = << >>]

ValEnd(d, result) == [d EXCEPT !.result = result]

\* Mesh::allocateDataValues(): values() gets vertexCount * dimensions entries,
\* those it had are kept and new ones are zero.
allocateDataValues(d) ==
  [d EXCEPT !.values = [k \in 1..(d.vertexCount * cfg.dims) |->
                          IF k <= Len(d.values) THEN d.values[k] ELSE 0]]

\* Mutant: the values are allocated before the vertices are created.
createAndAllocate_early(d, n) ==
  [allocateDataValues(d) EXCEPT !.vertexCount = @ + n]

\* setMeshVertex() and setMeshVertices(): createVertex() for each position,
\* then allocateDataValues().
createAndAllocate(d, n) ==
  allocateDataValues([d EXCEPT !.vertexCount = @ + n])

\* computePartitions() for the mesh: partition->compute() leaves the mesh
\* with the vertices of this rank's partition, then allocateDataValues().
computeAndAllocate(d, n) ==
  allocateDataValues([d EXCEPT !.vertexCount = n, !.locked = TRUE])

\* values[k] = v with k counted from 0, as the code does.
store(d, k, v) ==
  IF k >= 0 /\ k < Len(d.values) THEN [d EXCEPT !.values[k + 1] = v]
  ELSE [d EXCEPT !.outside = TRUE]

\* values[k] appended to what the call returns.
load(d, k) ==
  IF k >= 0 /\ k < Len(d.values) THEN [d EXCEPT !.ret = Append(@, d.values[k + 1])]
  ELSE [d EXCEPT !.outside = TRUE]

\* 0 <= valueIndex && valueIndex < values.size() / getDimensions()
inRange(d, valueIndex, dims) ==
  0 <= valueIndex /\ valueIndex < Len(d.values) \div dims

RECURSIVE storeVector(_, _, _, _)
storeVector(d, offset, v, dim) ==
  IF dim = dimensions THEN d
  ELSE storeVector(store(d, offset + dim, valueFor(v, dim)), offset, v, dim + 1)

RECURSIVE loadVector(_, _, _)
loadVector(d, offset, dim) ==
  IF dim = dimensions THEN d
  ELSE loadVector(load(d, offset + dim), offset, dim + 1)

\* The inner loop of writeBlockVectorData(): the assertion is on the offset in
\* the solver's block, the write at the offset in values().
RECURSIVE writeBlockComponents(_, _, _, _, _)
writeBlockComponents(d, offsetInternal, offset, v, dim) ==
  IF dim = dimensions THEN d
  ELSE IF cfg.debug /\ ~(offset + dim < Len(d.values)) THEN ValEnd(d, "assert")
  ELSE writeBlockComponents(store(d, offsetInternal + dim, valueFor(v, dim)),
                            offsetInternal, offset, v, dim + 1)

RECURSIVE writeBlockVectorLoop(_, _, _)
writeBlockVectorLoop(d, valueIndices, i) ==
  IF i = Len(valueIndices) \/ d.result # "ok" THEN d
  ELSE LET valueIndex == valueIndices[i + 1]
       IN IF ~inRange(d, valueIndex, cfg.dims) THEN ValEnd(d, "error")
          ELSE writeBlockVectorLoop(
                 writeBlockComponents(d, valueIndex * dimensions, i * dimensions, i + 1, 0),
                 valueIndices, i + 1)

writeBlockVectorData(d, valueIndices) ==
  LET d0 == ValBegin(d, "writeBlockVectorData", valueIndices)
  IN IF Len(valueIndices) = 0 THEN d0
     ELSE IF cfg.dims # dimensions THEN ValEnd(d0, "error")
     ELSE writeBlockVectorLoop(d0, valueIndices, 0)

writeVectorData(d, valueIndex, v) ==
  LET d0 == [ValBegin(d, "writeVectorData", <<valueIndex>>) EXCEPT !.v = v]
  IN IF cfg.dims # dimensions THEN ValEnd(d0, "error")
     ELSE IF ~inRange(d0, valueIndex, cfg.dims) THEN ValEnd(d0, "error")
     ELSE storeVector(d0, valueIndex * dimensions, v, 0)

RECURSIVE writeBlockScalarLoop(_, _, _)
writeBlockScalarLoop(d, valueIndices, i) ==
  IF i = Len(valueIndices) THEN d
  ELSE LET valueIndex == valueIndices[i + 1]
       IN IF ~inRange(d, valueIndex, cfg.dims) THEN ValEnd(d, "error")
          ELSE IF cfg.debug /\ ~(i < Len(d.values)) THEN ValEnd(d, "assert")
          ELSE writeBlockScalarLoop(store(d, valueIndex, valueFor(i + 1, 0)),
                                    valueIndices, i + 1)

writeBlockScalarData(d, valueIndices) ==
  LET d0 == ValBegin(d, "writeBlockScalarData", valueIndices)
  IN IF Len(valueIndices) = 0 THEN d0
     ELSE IF cfg.dims # 1 THEN ValEnd(d0, "error")
     ELSE writeBlockScalarLoop(d0, valueIndices, 0)

writeScalarData(d, valueIndex, v) ==
  LET d0 == [ValBegin(d, "writeScalarData", <<valueIndex>>) EXCEPT !.v = v]
  IN IF ~(valueIndex >= -1) THEN ValEnd(d0, "error")
     ELSE IF cfg.dims # 1 THEN ValEnd(d0, "error")
     ELSE IF ~inRange(d0, valueIndex, cfg.dims) THEN ValEnd(d0, "error")
     ELSE store(d0, valueIndex, valueFor(v, 0))

RECURSIVE readBlockVectorLoop(_, _, _)
readBlockVectorLoop(d, valueIndices, i) ==
  IF i = Len(valueIndices) THEN d
  ELSE LET valueIndex == valueIndices[i + 1]
           offsetInternal == valueIndex * dimensions
       IN IF ~inRange(d, valueIndex, cfg.dims) THEN ValEnd(d, "error")
          ELSE IF cfg.debug /\ \E dim \in 0..(dimensions - 1) :
                                 ~(offsetInternal + dim < Len(d.values))
            THEN ValEnd(d, "assert")
          ELSE readBlockVectorLoop(loadVector(d, offsetInternal, 0), valueIndices, i + 1)

readBlockVectorData(d, valueIndices) ==
  LET d0 == ValBegin(d, "readBlockVectorData", valueIndices)
  IN IF Len(valueIndices) = 0 THEN d0
     ELSE IF cfg.dims # dimensions THEN ValEnd(d0, "error")
     ELSE readBlockVectorLoop(d0, valueIndices, 0)

readVectorData(d, valueIndex) ==
  LET d0 == ValBegin(d, "readVectorData", <<valueIndex>>)
  IN IF ~(valueIndex >= -1) THEN ValEnd(d0, "error")
     ELSE IF cfg.dims # dimensions THEN ValEnd(d0, "error")
     ELSE IF ~inRange(d0, valueIndex, cfg.dims) THEN ValEnd(d0, "error")
     ELSE loadVector(d0, valueIndex * dimensions, 0)

RECURSIVE readBlockScalarLoop(_, _, _)
readBlockScalarLoop(d, valueIndices, i) ==
  IF i = Len(valueIndices) THEN d
  ELSE LET valueIndex == valueIndices[i + 1]
       IN IF ~inRange(d, valueIndex, 1) THEN ValEnd(d, "error")
          ELSE readBlockScalarLoop(load(d, valueIndex), valueIndices, i + 1)

readBlockScalarData(d, valueIndices) ==
  LET d0 == ValBegin(d, "readBlockScalarData", valueIndices)
  IN IF Len(valueIndices) = 0 THEN d0
     ELSE IF cfg.dims # 1 THEN ValEnd(d0, "error")
     ELSE readBlockScalarLoop(d0, valueIndices, 0)

readScalarData(d, valueIndex) ==
  LET d0 == ValBegin(d, "readScalarData", <<valueIndex>>)
  IN IF ~(valueIndex >= -1) THEN ValEnd(d0, "error")
     ELSE IF cfg.dims # 1 THEN ValEnd(d0, "error")
     ELSE IF ~inRange(d0, valueIndex, 1) THEN ValEnd(d0, "error")
     ELSE load(d0, valueIndex)

\* The value indices a solver passes: one, and a block of them, which may be
\* longer than the mesh has vertices.
ValueIndices == (-2)..MaxVertices

ValueIndexBlocks == SeqsUpTo((-1)..MaxVertices, MaxVertices + 1)

ValInit ==
  /\ cfg \in [debug : BOOLEAN, dims : {1, dimensions}]
  /\ data = ValInit0
  /\ sess = SessionInit /\ hist = HistInit /\ ranks = Idle /\ syncCh = Idle
  /\ fin = Idle /\ m2nCh = Idle /\ part = Idle /\ disp = Idle /\ cpl = Idle
  /\ iter = Idle /\ conf = Idle /\ geo = Idle

\* A call is made when the call before it has returned to the solver.
ValFrame ==
  /\ data.op = "none"
  /\ UNCHANGED <<cfg, sess, hist, ranks, syncCh, fin, m2nCh, part, disp, cpl, iter, conf, geo>>

\* The solver has taken the result of the call.
ValReturn ==
  /\ data.op # "none" /\ data.result \in {"ok", "error"}
  /\ data' = [ValBegin(data, "none", << >>) EXCEPT !.outside = FALSE]
  /\ UNCHANGED <<cfg, sess, hist, ranks, syncCh, fin, m2nCh, part, disp, cpl, iter, conf, geo>>

\* PRECICE_REQUIRE_MESH_MODIFY: a locked mesh takes no vertex.
ValSetMeshVertex ==
  /\ ValFrame
  /\ data.vertexCount < MaxVertices
  /\ data' = IF data.locked THEN ValEnd(ValBegin(data, "setMeshVertex", << >>), "error")
             ELSE createAndAllocate(ValBegin(data, "setMeshVertex", << >>), 1)

ValSetMeshVertices ==
  /\ ValFrame
  /\ \E size \in 0..MaxVertices :
       /\ data.vertexCount + size <= MaxVertices
       /\ data' = IF data.locked
                    THEN ValEnd(ValBegin(data, "setMeshVertices", << >>), "error")
                  ELSE createAndAllocate(ValBegin(data, "setMeshVertices", << >>), size)

\* initialize() calls computePartitions() once; the partition of this rank
\* has the vertices the solver set, or those of a received or filtered mesh.
ValComputePartitions ==
  /\ ValFrame
  /\ ~data.locked
  /\ \E n \in 0..MaxVertices :
       data' = computeAndAllocate(ValBegin(data, "computePartitions", << >>), n)

ValWriteBlockVectorData ==
  /\ ValFrame
  /\ \E valueIndices \in ValueIndexBlocks : data' = writeBlockVectorData(data, valueIndices)

ValWriteVectorData ==
  /\ ValFrame
  /\ \E valueIndex \in ValueIndices, v \in 1..MaxVertices :
       data' = writeVectorData(data, valueIndex, v)

ValWriteBlockScalarData ==
  /\ ValFrame
  /\ \E valueIndices \in ValueIndexBlocks : data' = writeBlockScalarData(data, valueIndices)

ValWriteScalarData ==
  /\ ValFrame
  /\ \E valueIndex \in ValueIndices, v \in 1..MaxVertices :
       data' = writeScalarData(data, valueIndex, v)

ValReadBlockVectorData ==
  /\ ValFrame
  /\ \E valueIndices \in ValueIndexBlocks : data' = readBlockVectorData(data, valueIndices)

ValReadVectorData ==
  /\ ValFrame
  /\ \E valueIndex \in ValueIndices : data' = readVectorData(data, valueIndex)

ValReadBlockScalarData ==
  /\ ValFrame
  /\ \E valueIndices \in ValueIndexBlocks : data' = readBlockScalarData(data, valueIndices)

ValReadScalarData ==
  /\ ValFrame
  /\ \E valueIndex \in ValueIndices : data' = readScalarData(data, valueIndex)

ValNext ==
  \/ ValReturn
  \/ ValSetMeshVertex
  \/ ValSetMeshVertices
  \/ ValComputePartitions
  \/ ValWriteBlockVectorData
  \/ ValWriteVectorData
  \/ ValWriteBlockScalarData
  \/ ValWriteScalarData
  \/ ValReadBlockVectorData
  \/ ValReadVectorData
  \/ ValReadBlockScalarData
  \/ ValReadScalarData

SpecData == ValInit /\ [][ValNext]_vars

\* ---------------------------------------------------------------------------
\* Claims about the data values (checked under SpecData)
\* ---------------------------------------------------------------------------

VectorOps == {"writeVectorData", "writeBlockVectorData", "readVectorData", "readBlockVectorData"}

ScalarOps == {"writeScalarData", "writeBlockScalarData", "readScalarData", "readBlockScalarData"}

WriteOps == {"writeVectorData", "writeBlockVectorData", "writeScalarData", "writeBlockScalarData"}

BlockOps == {"writeBlockVectorData", "writeBlockScalarData", "readBlockVectorData", "readBlockScalarData"}

ArityOf(op) == IF op \in VectorOps THEN dimensions ELSE 1

\* The values of vertex index in values(), component by component.
ValuesAt(d, index) == [dim \in 0..(cfg.dims - 1) |-> d.values[index * cfg.dims + dim + 1]]

\* The value the call d.op passed for the place i of its indices.
PassedAt(d, i) ==
  [dim \in 0..(cfg.dims - 1) |-> valueFor(IF d.op \in BlockOps THEN i ELSE d.v, dim)]

\* The last place at which the indices of the call name index.
LastPlace(d, index) ==
  CHOOSE i \in 1..Len(d.arg) :
    d.arg[i] = index /\ \A k \in 1..Len(d.arg) : d.arg[k] = index => k <= i

ValidIndices(d, arg) == \A i \in 1..Len(arg) : arg[i] \in 0..(d.vertexCount - 1)

\* C27: after every setMeshVertex(), setMeshVertices() and computePartitions()
\* step, and from then on, the data array has vertexCount times the data's
\* dimensionality entries, and every vertex index 0..vertexCount-1 passes the
\* range check of the write and read operations.
C27_ValuesSize ==
  /\ Len(data.values) = data.vertexCount * cfg.dims
  /\ \A index \in 0..(data.vertexCount - 1) : inRange(data, index, cfg.dims)

\* C27 witness: setMeshVertices() has added a vertex to a mesh whose vector
\* data had a value written, and the array has grown to both vertices.
C27_Witness ==
  /\ data.op = "setMeshVertices" /\ data.result = "ok"
  /\ cfg.dims = dimensions /\ data.vertexCount = 2
  /\ data.values = <<1, 11, 0, 0>>

\* C28 as stated: an operation of the other arity than the data's, given at
\* least one index, fails with a usage error and changes no stored value; an
\* operation of the data's arity on indices of vertices succeeds, a write
\* leaves at each index the value passed for it last, and a read returns the
\* values stored at the indices.
C28_AsStated ==
  [][ data'.op \in VectorOps \cup ScalarOps =>
        /\ (ArityOf(data'.op) # cfg.dims /\ data'.arg # << >>) =>
             data'.result = "error" /\ data'.values = data.values
        /\ (ArityOf(data'.op) = cfg.dims /\ ValidIndices(data, data'.arg)) =>
             /\ data'.result = "ok"
             /\ data'.op \in WriteOps =>
                  \A index \in 0..(data.vertexCount - 1) :
                    ValuesAt(data', index) =
                      IF \E i \in 1..Len(data'.arg) : data'.arg[i] = index
                        THEN PassedAt(data', LastPlace(data', index))
                        ELSE ValuesAt(data, index)
             /\ data'.op \notin WriteOps =>
                  /\ data'.values = data.values
                  /\ \A i \in 1..Len(data'.arg), dim \in 0..(cfg.dims - 1) :
                       data'.ret[(i - 1) * cfg.dims + dim + 1]
                         = ValuesAt(data, data'.arg[i])[dim]
    ]_vars

\* C29 as stated: a write or read operation given an index outside
\* 0..vertexCount-1 fails with a usage error, and no operation reads or
\* writes a position outside the data array.
C29_AsStated ==
  [][ data'.op \in VectorOps \cup ScalarOps =>
        /\ ~ValidIndices(data, data'.arg) => data'.result = "error"
        /\ ~data'.outside
    ]_vars

\* ---------------------------------------------------------------------------
\* SpecEdges: the edges, triangles and quads a solver sets on a mesh whose
\* vertices are set, before initialize() locks the mesh.
\* ---------------------------------------------------------------------------

\* The vertices of the mesh, by ID: the solver has set three, enough for a
\* triangle.
EdgeVertexIDs == 0..2

\* getCoords() of a vertex: with cfg.twin the vertices 0 and 1 lie at one place.
coordsOf(id) == IF cfg.twin /\ id = 1 THEN <<0, 0>> ELSE <<id, id>>

\* Mesh::isValidVertexID()
isValidVertexID(id) == id \in EdgeVertexIDs

\* utils::unique_elements(): no two elements of the array are equal.
unique_elements(s) == \A i, j \in 1..Len(s) : s[i] = s[j] => i = j

EdgeInit0 ==
  [ edges |-> << >>,          \* mesh->edges(): the two vertex IDs of each edge, by edge ID
    triangles |-> << >>,      \* mesh->triangles(): the edge IDs of each
    quads |-> << >>,          \* mesh->quads(): the edge IDs of each
    made |-> << >>,           \* the edge IDs the last call has got from the mesh
    calls |-> 0,              \* the calls made so far
    op |-> "none", result |-> "ok", ret |-> -1 ]

\* Mesh::createEdge(): a new edge between the two vertices, whatever edges exist.
createEdge(g, v, w) ==
  [g EXCEPT !.edges = Append(@, <<v, w>>), !.made = Append(@, Len(g.edges))]

\* The edges of the mesh that join v and w, by ID.
edgesBetween(g, v, w) == {e \in 0..(Len(g.edges) - 1) : {g.edges[e + 1][1], g.edges[e + 1][2]} = {v, w}}

\* Mesh::createUniqueEdge(): the edge that joins the two vertices if there is
\* one, else a new one.
createUniqueEdge(g, v, w) ==
  IF edgesBetween(g, v, w) # {}
    THEN [g EXCEPT !.made = Append(@, Min(edgesBetween(g, v, w)))]
    ELSE createEdge(g, v, w)

EBegin(g, op) ==
  [g EXCEPT !.op = op, !.result = "ok", !.ret = -1, !.made = << >>, !.calls = @ + 1]

setMeshEdge(g, firstVertexID, secondVertexID) ==
  LET g0 == EBegin(g, "setMeshEdge")
  IN IF ~cfg.full THEN g0
     ELSE IF ~isValidVertexID(firstVertexID) \/ ~isValidVertexID(secondVertexID)
       THEN [g0 EXCEPT !.result = "error"]
     ELSE LET g1 == createEdge(g0, firstVertexID, secondVertexID)
          IN [g1 EXCEPT !.ret = g1.made[1]]

setMeshTriangleWithEdges(g, ids) ==
  LET g0 == EBegin(g, "setMeshTriangleWithEdges")
  IN IF ~cfg.full THEN g0
     ELSE IF \E i \in 1..3 : ~isValidVertexID(ids[i]) THEN [g0 EXCEPT !.result = "error"]
     ELSE IF ~unique_elements(ids) THEN [g0 EXCEPT !.result = "error"]
     ELSE IF ~unique_elements([i \in 1..3 |-> coordsOf(ids[i])])
       THEN [g0 EXCEPT !.result = "error"]
     ELSE LET g1 == createUniqueEdge(g0, ids[1], ids[2])
              g2 == createUniqueEdge(g1, ids[2], ids[3])
              g3 == createUniqueEdge(g2, ids[3], ids[1])
          IN [g3 EXCEPT !.triangles = Append(@, g3.made)]

setMeshQuadWithEdges(g, ids) ==
  LET g0 == EBegin(g, "setMeshQuadWithEdges")
  IN IF ~cfg.full THEN g0
     ELSE IF \E i \in 1..4 : ~isValidVertexID(ids[i]) THEN [g0 EXCEPT !.result = "error"]
     ELSE LET g1 == createUniqueEdge(g0, ids[1], ids[2])
              g2 == createUniqueEdge(g1, ids[2], ids[3])
              g3 == createUniqueEdge(g2, ids[3], ids[4])
              g4 == createUniqueEdge(g3, ids[4], ids[1])
          IN [g4 EXCEPT !.quads = Append(@, g4.made)]

\* The vertex IDs a solver passes: those of the mesh and one that is none.
PassedVertexIDs == (-1)..2

EdgeInit ==
  /\ cfg \in [full : BOOLEAN, twin : BOOLEAN]
  /\ geo = EdgeInit0
  /\ sess = SessionInit /\ hist = HistInit /\ ranks = Idle /\ syncCh = Idle
  /\ fin = Idle /\ m2nCh = Idle /\ part = Idle /\ disp = Idle /\ cpl = Idle
  /\ iter = Idle /\ conf = Idle /\ data = Idle

\* The model follows the mesh for MaxCount calls. A call that failed has left
\* the mesh as it was before it: the calls after it are those after the call
\* before it.
EdgeFrame ==
  /\ geo.result = "ok" /\ geo.calls < MaxCount
  /\ UNCHANGED <<cfg, sess, hist, ranks, syncCh, fin, m2nCh, part, disp, cpl, iter, conf, data>>

EdgeSetMeshEdge ==
  /\ EdgeFrame
  /\ \E v, w \in PassedVertexIDs : geo' = setMeshEdge(geo, v, w)

EdgeSetMeshTriangleWithEdges ==
  /\ EdgeFrame
  /\ \E ids \in [1..3 -> PassedVertexIDs] : geo' = setMeshTriangleWithEdges(geo, ids)

EdgeSetMeshQuadWithEdges ==
  /\ EdgeFrame
  /\ \E ids \in [1..4 -> PassedVertexIDs] : geo' = setMeshQuadWithEdges(geo, ids)

EdgeNext ==
  \/ EdgeSetMeshEdge
  \/ EdgeSetMeshTriangleWithEdges
  \/ EdgeSetMeshQuadWithEdges

SpecEdges == EdgeInit /\ [][EdgeNext]_vars

\* C31 as stated: no two edges of the mesh join the same two vertices.
C31_AsStated ==
  \A e, f \in 1..Len(geo.edges) :
    {geo.edges[e][1], geo.edges[e][2]} = {geo.edges[f][1], geo.edges[f][2]} => e = f

\* ---------------------------------------------------------------------------
\* SpecReset: the session of a serial participant from configure() to
\* finalize() and after it, with the number of vertices each mesh had when
\* its partition was last computed.
\* ---------------------------------------------------------------------------

RstConfigurations == {c \in Configurations : c.size = 1 /\ ~c.plotExport}

\* The call made the step computePartitions().
ComputedPartitions(s) == \E i \in 1..Len(s.log) : s.log[i][1] = "computePartitions"

\* partition->compute() works on the vertices the mesh has at that time.
partitionedAfter(h, s) ==
  IF ComputedPartitions(s) THEN s.vertexCount ELSE h.partitioned

RstCall(s) ==
  /\ sess' = s
  /\ hist' = [ initialized |-> histAfter(hist, s).initialized,
               resetSince  |-> histAfter(hist, s).resetSince,
               relocked    |-> histAfter(hist, s).relocked,
               partitioned |-> partitionedAfter(hist, s) ]
  /\ UNCHANGED <<cfg, ranks, syncCh, fin, m2nCh, part, disp, cpl, iter, conf, data, geo>>

RstInit ==
  /\ cfg \in RstConfigurations
  /\ sess = SessionInit
  /\ hist = [ initialized |-> FALSE, resetSince |-> {}, relocked |-> {},
              partitioned |-> [m \in MeshIDs |-> 0] ]
  /\ ranks = Idle /\ syncCh = Idle /\ fin = Idle /\ m2nCh = Idle
  /\ part = Idle /\ disp = Idle /\ cpl = Idle
  /\ iter = Idle /\ conf = Idle /\ data = Idle /\ geo = Idle

\* initializeData() of the session: the check on the scheme, the write
\* mapping, the scheme's initializeData(), the read mapping if data have been
\* exchanged, the actions, the reset of the written data and the exports.
sessionInitializeData(s, exch, ub) ==
  LET s0 == Begin(s, "initializeData", -1)
  IN IF ~s0.couplingScheme.alive
       THEN (IF ub = "crash" THEN Crash(s0) ELSE Fail(s0))
     ELSE IF ~s0.couplingScheme.initialized THEN Fail(s0)
     ELSE
       LET s1 == [Log(mapWrittenData(s0), "scheme.initializeData", "") EXCEPT
                    !.couplingScheme.exchanged = exch]
           s2 == IF exch THEN mapReadData(s1) ELSE s1
           s3 == Log(performDataActions(s2, "post"), "resetWrittenData", "")
       IN IF cfg.plotExport THEN Log(s3, "exportMesh", "init") ELSE s3

RstConfigure == ~sess.configured /\ RstCall(configure(sess))

\* The solver calls initialize() once.
RstInitialize ==
  /\ Running /\ ~hist.initialized
  /\ \E exch \in BOOLEAN, ub \in ubOutcomes(sess) : RstCall(initialize(sess, exch, ub))

RstInitializeData ==
  /\ Running
  /\ \E exch \in BOOLEAN, ub \in ubOutcomes(sess) :
       RstCall(sessionInitializeData(sess, exch, ub))

RstAdvance ==
  /\ Running
  /\ sess.numberAdvanceCalls < MaxAdvanceCalls
  /\ \E dt \in 1..getThisTimestepRemainder(sess.couplingScheme),
        ub \in ubOutcomes(sess) :
       RstCall(advance(sess, dt, [r \in {} |-> dt], ub))

RstFinalize ==
  /\ Running
  /\ \E ub \in ubOutcomes(sess) : RstCall(finalize(sess, ub))

RstSetMeshVertex ==
  /\ Running
  /\ \E meshID \in MeshIDs :
       /\ (sess.vertexCount[meshID] < MaxVertices
             \/ ~requireMeshModify(sess, meshID))
       /\ RstCall(setMeshVertex(sess, meshID))

RstResetMesh ==
  /\ Running
  /\ \E meshID \in MeshIDs : RstCall(resetMesh(sess, meshID))

RstNext ==
  \/ RstConfigure
  \/ RstInitialize
  \/ RstInitializeData
  \/ RstAdvance
  \/ RstFinalize
  \/ RstSetMeshVertex
  \/ RstResetMesh

SpecReset == RstInit /\ [][RstNext]_vars

\* A mesh was reset after a completed time window and has since got vertices
\* again, another number of them than its partition was computed for.
Repopulated(m) ==
  /\ hist.initialized /\ sess.couplingScheme.alive /\ sess.couplingScheme.complete
  /\ m \in hist.resetSince
  /\ sess.vertexCount[m] > 0
  /\ sess.vertexCount[m] # hist.partitioned[m]

\* C32 as stated: an advance() called after a mesh was reset and re-populated
\* with a different number of vertices computes the partitions again or
\* fails; it does not go on with the partition computed in initialize().
C32_AsStated ==
  [][ (sess'.op = "advance" /\ \E m \in MeshIDs : Repopulated(m)) =>
        (ComputedPartitions(sess') \/ sess'.result = "error")
    ]_vars

\* ---------------------------------------------------------------------------
\* The actions in every call that runs them (checked under SpecMapping)
\* ---------------------------------------------------------------------------

\* The step of the coupling scheme in a call.
SchemeStepOf(op) ==
  IF op = "initialize" THEN "scheme.initialize"
  ELSE IF op = "initializeData" THEN "scheme.initializeData"
  ELSE "scheme.advance"

\* C34 as stated: in each call of initialize(), initializeData() and
\* advance() the action with timing ALWAYS_POST is performed exactly once,
\* after the coupling scheme's step of that call.
C34_AsStated ==
  (disp.op \in {"initialize", "initializeData", "advance"} /\ disp.result = "ok") =>
    /\ Cardinality(Positions(disp.log, "performAction", ALWAYS_POST)) = 1
    /\ \A i \in Positions(disp.log, "performAction", ALWAYS_POST) :
         \E j \in Positions(disp.log, SchemeStepOf(disp.op), "") : j < i

\* ---------------------------------------------------------------------------
\* The lifecycle of the session (checked under SpecReset)
\* ---------------------------------------------------------------------------

\* finalize() has completed: it has released the coupling scheme.
Finalized == sess.configured /\ ~sess.couplingScheme.alive

\* C33 as stated: initializeData(), advance() and finalize() called before
\* initialize(), and the same calls made after finalize() has completed, are
\* rejected with an error.
C33_AsStated ==
  [][ ( /\ sess'.op \in {"initializeData", "advance", "finalize"}
        /\ sess.configured
        /\ (~hist.initialized \/ Finalized) )
      => sess'.result = "error"
    ]_vars

====
